---- MODULE Spec2Model ----
(***************************************************************************)
(* Model of the localmemory backend: the ingestion pipeline                *)
(* (services/ingestion.py), the embedding store (utils/embeddings.py), the *)
(* document routes (routers/documents.py), the retrieval pipeline          *)
(* (services/retrieval.py) and the chunker (utils/chunking.py).            *)
(*                                                                         *)
(* Requests and the scheduled folder scan are coroutines of one asyncio    *)
(* event loop.  A coroutine keeps the loop until it reaches an await that  *)
(* really suspends; the only such await on the write path is               *)
(* `await file.read()` in upload_document.  The variable `loop` names the  *)
(* task that holds the event loop.  `procs` is the deployment: FALSE for   *)
(* one server process (Spec), TRUE for several worker processes over the   *)
(* same database file and index directory (SpecProcs), where the steps of  *)
(* different tasks interleave freely.                                      *)
(* SpecPure calls the pure functions chunk_text and generate_chunk_id on   *)
(* every input of a bounded set.                                           *)
(* SpecChat is one server process with the streaming chat route            *)
(* (routers/chat.py), whose generator suspends at every event it yields,   *)
(* next to ingestions that succeed.  The digest job and the digest route   *)
(* (core/scheduler.py, routers/memory.py, services/proactive.py) are       *)
(* steps of Spec.  SpecFolder is Spec started with a file in the watched   *)
(* folder.                                                                 *)
(***************************************************************************)
EXTENDS Bags, FiniteSets, Integers, Sequences, TLC

\* ---------------------------------------------------------------- bounds
MaxDocs == 2
MaxUploads == 1
MaxWatched == 2
\* Operations started by clients, the scheduler and the user, in one run.
MaxOps == 3

\* Longest text handed to chunk_text, and largest chunk_size, in the
\* specification of the pure functions.
MaxTextLen == 5
MaxChunkSize == 4

Tasks == {"t1", "t2"}

\* File contents (the bytes of a file).  compute_file_hash is SHA-256 of
\* the bytes, taken as collision-free: the bytes stand for their hash.
Contents == {"A", "B"}

\* Extensions of the file names offered to the program.
Exts == {".PDF", ".exe"}

\* ------------------------------------------------------------- constants
NoDoc == 0
NULL == "NULL"
NoBytes == "none"

PENDING == "pending"
PROCESSING == "processing"
READY == "ready"
FAILED == "failed"

SUPPORTED_EXTENSIONS == {".pdf", ".txt", ".docx", ".md"}

\* ------------------------------------------------------------ file names
\* str.lower() on the extensions in use.
Lower(ext) ==
    CASE ext = ".PDF" -> ".pdf"
      [] ext = ".TXT" -> ".txt"
      [] ext = ".MD" -> ".md"
      [] ext = ".DOCX" -> ".docx"
      [] OTHER -> ext

\* The mapping as it would be with plain text as the fallback type.
get_document_type_defaults_txt(ext) ==
    LET e == Lower(ext) IN
    CASE e = ".pdf" -> "pdf"
      [] e = ".docx" -> "docx"
      [] e = ".md" -> "md"
      [] OTHER -> "txt"

\* get_document_type(filename), on the extension of the file name.
get_document_type(ext) ==
    LET e == Lower(ext) IN
    CASE e = ".pdf" -> "pdf"
      [] e = ".txt" -> "txt"
      [] e = ".docx" -> "docx"
      [] e = ".md" -> "md"
      [] OTHER -> "unknown"

\* ----------------------------------------------------------------- files
UploadPaths == [dir : {"uploads"}, n : 1..MaxUploads]
WatchedPaths == [dir : {"watched"}, n : 1..MaxWatched]
Paths == UploadPaths \cup WatchedPaths
NoPath == [dir |-> "none", n |-> 0]
NoFile == [bytes |-> NoBytes, ext |-> ""]

\* -------------------------------------------------------------- chunking
\* A text is a sequence of characters; "LF", "TAB" and "NUL" stand for the
\* newline, the tab and the null byte.
Whitespace == {" ", "LF", "TAB"}
Punctuation == {".", "!", "?"}

Min(a, b) == IF a < b THEN a ELSE b

\* sequence[i:j] of Python, 0-based, j exclusive and cut at the length.
Slice(s, i, j) == SubSeq(s, i + 1, Min(j, Len(s)))

RECURSIVE lstrip(_)
lstrip(s) == IF s # <<>> /\ Head(s) \in Whitespace THEN lstrip(Tail(s)) ELSE s

RECURSIVE rstrip(_)
rstrip(s) ==
    IF s # <<>> /\ s[Len(s)] \in Whitespace THEN rstrip(SubSeq(s, 1, Len(s) - 1)) ELSE s

\* str.strip()
strip(s) == rstrip(lstrip(s))

\* Length of the run of characters of set S that starts at position i.
RECURSIVE RunLen(_, _, _)
RunLen(s, i, S) == IF i <= Len(s) /\ s[i] \in S THEN 1 + RunLen(s, i + 1, S) ELSE 0

\* re.sub(r'\n{3,}', '\n\n', text), from position i on.
RECURSIVE collapse_newlines(_, _)
collapse_newlines(s, i) ==
    IF i > Len(s) THEN <<>>
    ELSE LET n == RunLen(s, i, {"LF"}) IN
         IF n >= 3 THEN <<"LF", "LF">> \o collapse_newlines(s, i + n)
         ELSE <<s[i]>> \o collapse_newlines(s, i + 1)

\* re.sub(r'[ \t]+', ' ', text), from position i on.
RECURSIVE collapse_blanks(_, _)
collapse_blanks(s, i) ==
    IF i > Len(s) THEN <<>>
    ELSE LET n == RunLen(s, i, {" ", "TAB"}) IN
         IF n >= 1 THEN <<" ">> \o collapse_blanks(s, i + n)
         ELSE <<s[i]>> \o collapse_blanks(s, i + 1)

\* clean_text(text)
clean_text(text) ==
    strip(collapse_blanks(collapse_newlines(SelectSeq(text, LAMBDA c : c # "NUL"), 1), 1))

\* re.split(r'(?<=[.!?])\s+', text) from position i on: cur is the piece
\* being read, out the pieces cut off so far.
RECURSIVE re_split(_, _, _, _)
re_split(text, i, cur, out) ==
    IF i > Len(text) THEN Append(out, cur)
    ELSE IF text[i] \in Whitespace /\ i > 1 /\ text[i - 1] \in Punctuation
    THEN re_split(text, i + RunLen(text, i, Whitespace), <<>>, Append(out, cur))
    ELSE re_split(text, i + 1, Append(cur, text[i]), out)

\* [s.strip() for s in pieces if s.strip()]
RECURSIVE stripped_nonempty(_)
stripped_nonempty(pieces) ==
    IF pieces = <<>> THEN <<>>
    ELSE (IF strip(Head(pieces)) # <<>> THEN <<strip(Head(pieces))>> ELSE <<>>)
         \o stripped_nonempty(Tail(pieces))

\* split_into_sentences(text)
split_into_sentences(text) == stripped_nonempty(re_split(text, 1, <<>>, <<>>))

\* The join as it would be without a separator.
RECURSIVE join_unspaced(_)
join_unspaced(sentences) ==
    IF sentences = <<>> THEN <<>> ELSE Head(sentences) \o join_unspaced(Tail(sentences))

\* " ".join(sentences)
RECURSIVE join(_)
join(sentences) ==
    IF sentences = <<>> THEN <<>>
    ELSE IF Len(sentences) = 1 THEN Head(sentences)
    ELSE Head(sentences) \o <<" ">> \o join(Tail(sentences))

\* len(content.split()): the number of maximal runs of non-whitespace.
word_count(content) ==
    Cardinality({i \in 1..Len(content) :
        content[i] \notin Whitespace /\ (i = 1 \/ content[i - 1] \in Whitespace)})

\* chunks.append({"content": ..., "index": ..., "word_count": ...})
append_chunk(chunks, content, index) ==
    Append(chunks, [content |-> content, index |-> index, word_count |-> word_count(content)])

\* The counter as it would be if it were advanced for every window.
index_after_piece_always(chunk_index, piece) == chunk_index + 1

\* chunk_index after one window of a hard split: advanced only when the
\* window was appended.
index_after_piece(chunk_index, piece) ==
    IF strip(piece) # <<>> THEN chunk_index + 1 ELSE chunk_index

\* The split as it would be if the windows did not overlap.
RECURSIVE hard_split_by_chunk_size(_, _, _, _, _)
hard_split_by_chunk_size(st, sentence, i, chunk_size, chunk_overlap) ==
    IF i >= Len(sentence) THEN st
    ELSE LET piece == Slice(sentence, i, i + chunk_size) IN
         hard_split_by_chunk_size(
            [st EXCEPT !.chunks = IF strip(piece) # <<>>
                                  THEN append_chunk(@, piece, st.chunk_index) ELSE @,
                       !.chunk_index = index_after_piece(@, piece)],
            sentence, i + chunk_size, chunk_size, chunk_overlap)

\* for i in range(0, len(sentence), chunk_size - chunk_overlap), from i on.
\* st = [chunks, current_chunk, current_len, chunk_index].
RECURSIVE hard_split(_, _, _, _, _)
hard_split(st, sentence, i, chunk_size, chunk_overlap) ==
    IF i >= Len(sentence) THEN st
    ELSE LET piece == Slice(sentence, i, i + chunk_size) IN
         hard_split(
            [st EXCEPT !.chunks = IF strip(piece) # <<>>
                                  THEN append_chunk(@, piece, st.chunk_index) ELSE @,
                       !.chunk_index = index_after_piece(@, piece)],
            sentence, i + (chunk_size - chunk_overlap), chunk_size, chunk_overlap)

\* The seed as it would be if the whole flushed buffer were kept.
overlap_seed_whole_buffer(current_chunk, j, kept, chunk_overlap) ==
    [sentences |-> current_chunk,
     len |-> Len(join_unspaced(current_chunk))]

\* for s in reversed(current_chunk): the sentences kept as overlap, walking
\* back from position j; kept is what was taken so far.
RECURSIVE overlap_seed(_, _, _, _)
overlap_seed(current_chunk, j, kept, chunk_overlap) ==
    IF j = 0 THEN kept
    ELSE IF kept.len + Len(current_chunk[j]) <= chunk_overlap
    THEN overlap_seed(current_chunk, j - 1,
                      [sentences |-> <<current_chunk[j]>> \o kept.sentences,
                       len |-> kept.len + Len(current_chunk[j])],
                      chunk_overlap)
    ELSE kept

\* The buffer is flushed as one chunk.
flush(st) ==
    [st EXCEPT !.chunks = append_chunk(@, join(st.current_chunk), st.chunk_index),
               !.chunk_index = @ + 1]

\* The packing as it would be if every sentence started a chunk of its own.
pack_sentence_one_per_chunk(st, sentence, chunk_size, chunk_overlap) ==
    LET flushed == IF st.current_chunk # <<>>
                   THEN [flush(st) EXCEPT !.current_chunk = <<>>, !.current_len = 0]
                   ELSE st
    IN [flushed EXCEPT !.current_chunk = <<sentence>>, !.current_len = Len(sentence)]

\* The packing as it would be if a full buffer were never flushed.
pack_sentence_never_flushes(st, sentence, chunk_size, chunk_overlap) ==
    IF Len(sentence) > chunk_size
    THEN LET flushed == IF st.current_chunk # <<>>
                        THEN [flush(st) EXCEPT !.current_chunk = <<>>, !.current_len = 0]
                        ELSE st
         IN hard_split(flushed, sentence, 0, chunk_size, chunk_overlap)
    ELSE [st EXCEPT !.current_chunk = Append(@, sentence),
                    !.current_len = @ + Len(sentence)]

\* One iteration of the loop over the sentences.
pack_sentence(st, sentence, chunk_size, chunk_overlap) ==
    IF Len(sentence) > chunk_size
    THEN LET flushed == IF st.current_chunk # <<>>
                        THEN [flush(st) EXCEPT !.current_chunk = <<>>, !.current_len = 0]
                        ELSE st
         IN hard_split(flushed, sentence, 0, chunk_size, chunk_overlap)
    ELSE LET seeded ==
                IF st.current_len + Len(sentence) > chunk_size /\ st.current_chunk # <<>>
                THEN LET kept == overlap_seed(st.current_chunk, Len(st.current_chunk),
                                              [sentences |-> <<>>, len |-> 0], chunk_overlap)
                     IN [flush(st) EXCEPT !.current_chunk = kept.sentences,
                                          !.current_len = kept.len]
                ELSE st
         IN [seeded EXCEPT !.current_chunk = Append(@, sentence),
                           !.current_len = @ + Len(sentence)]

RECURSIVE pack(_, _, _, _, _)
pack(st, sentences, k, chunk_size, chunk_overlap) ==
    IF k > Len(sentences) THEN st
    ELSE pack(pack_sentence(st, sentences[k], chunk_size, chunk_overlap),
              sentences, k + 1, chunk_size, chunk_overlap)

\* chunk_text(text, chunk_size, chunk_overlap)
chunk_text(text, chunk_size, chunk_overlap) ==
    LET cleaned == clean_text(text) IN
    IF strip(cleaned) = <<>> THEN <<>>
    ELSE LET st == pack([chunks |-> <<>>, current_chunk |-> <<>>, current_len |-> 0,
                         chunk_index |-> 0],
                        split_into_sentences(cleaned), 1, chunk_size, chunk_overlap)
         IN IF st.current_chunk # <<>> THEN flush(st).chunks ELSE st.chunks

\* settings.chunk_size and settings.chunk_overlap as configured for the
\* pipeline runs of the model (the defaults are 1000 and 200).
chunk_size == 2
chunk_overlap == 1

\* extract_text on a file the parser accepts: the text of the file.
\* "A" is a text of two sentences, "B" a text of one.
extract_text(bytes) ==
    IF bytes = "A" THEN <<"a", ".", " ", "b", ".">> ELSE <<"c", ".">>

\* chunk_text(extract_text(file)) for every file content in use.
ChunksOf == [b \in Contents |-> chunk_text(extract_text(b), chunk_size, chunk_overlap)]

\* Number of chunks chunk_text yields for the text extracted from a file.
NumChunks(bytes) == Len(ChunksOf[bytes])

\* content[:100]
ID_CONTENT_PREFIX == 100

\* The id as it would be if only the chunk index were hashed.
generate_chunk_id_of_index_only(document_id, chunk_index, content) ==
    [document_id |-> NoDoc, chunk_index |-> chunk_index, content |-> <<>>]

\* The id as it would be if the chunk index were left out of the hash input.
generate_chunk_id_without_index(document_id, chunk_index, content) ==
    [document_id |-> document_id, chunk_index |-> 0,
     content |-> Slice(content, 0, ID_CONTENT_PREFIX)]

\* sha256(f"{document_id}:{chunk_index}:{content[:100]}")[:32], the hash
\* taken as collision-free: the id stands for the string that is hashed.
generate_chunk_id(document_id, chunk_index, content) ==
    [document_id |-> document_id, chunk_index |-> chunk_index,
     content |-> Slice(content, 0, ID_CONTENT_PREFIX)]

NoChunkId == [document_id |-> NoDoc, chunk_index |-> 0, content |-> <<>>]

VARIABLES
    documents,        \* documents table: id -> row, NoRow when absent
    document_chunks,  \* document_chunks table: bag of committed rows
    collection,       \* the vector index: set of vector records
    disk,             \* path -> file
    nextDocId,        \* next primary key of the documents table
    nUploads,         \* uploads saved so far (each under a fresh name)
    pc,               \* task -> position
    tk,               \* task -> locals of the running operation
    last,             \* outcome of the operation that finished last, until the next starts
    loop,             \* task holding the event loop, or "none"
    nOps,             \* operations started so far
    procs,            \* TRUE: several worker processes
    job_fired,        \* the daily digest job has fired today
    deleted,          \* hashes of the deleted folder documents whose bytes were not placed again
    conversations,    \* conversations table: the number of rows, ids 1..n
    messages,         \* messages table: the committed rows, by id
    memories,         \* memories table: the digest rows of today
    turn,             \* the chat turn that ended last: what it stored and sent
    found,            \* outcome of the last retrieve_context, until the next operation ends or starts
    store_op,         \* the last operation of the embedding store and how it ended
    call              \* the last call of a pure function: its arguments and its result

vars == <<documents, document_chunks, collection, disk, nextDocId, nUploads,
          pc, tk, last, loop, nOps, procs, job_fired, deleted, conversations, messages, memories, turn, found, store_op, call>>

DocIds == 1..MaxDocs

NoRow == [status |-> "absent", chunk_count |-> 0, error_message |-> NULL,
          content_hash |-> NoBytes, file_path |-> NoPath, doc_type |-> "unknown",
          is_watched |-> FALSE]

\* The locals of a chat turn: the conversation, the ids of the two messages
\* (0: not stored), full_response, the events handed to the client, the state
\* of the token stream and how the turn ended.
NoTurn == [conv |-> 0, user_msg |-> 0, assistant_msg |-> 0, content |-> "",
           history |-> <<>>,
           full_response |-> <<>>, events |-> <<>>, llm |-> "none", outcome |-> "none"]

NoLocals == [op |-> "none", body |-> NoBytes, path |-> NoPath, ext |-> "",
             doc |-> NoDoc, hash |-> NoBytes, chunks |-> <<>>, db_chunks |-> <<>>,
             chroma_ids |-> <<>>, reqs |-> <<>>, err |-> "", todo |-> {},
             turn |-> NoTurn]

NoRet == [op |-> "none", kind |-> "none", doc |-> NoDoc]

NoFound == [search |-> "none", top_k |-> 0, document_ids |-> [given |-> FALSE, ids |-> <<>>],
            results |-> <<>>, citations |-> <<>>]

NoStoreOp == [op |-> "none", index_failed |-> FALSE, raised |-> FALSE]

NoCall == [fn |-> "none", text |-> <<>>]

Exists(d) == documents[d].status # "absent"
Rows == {d \in DocIds : Exists(d)}

\* The duplicate lookup as it would be if it matched on a column that never
\* holds the hash: no row is ever found.
existing_never_matches(h) == NoDoc

\* The duplicate lookup as it would be if it matched only documents in
\* status ready.
existing_ready_only(h) ==
    IF \E d \in Rows : documents[d].content_hash = h /\ documents[d].status = READY
    THEN CHOOSE d \in Rows : documents[d].content_hash = h /\ documents[d].status = READY
    ELSE NoDoc

\* db.query(Document).filter(Document.content_hash == h).first()
existing(h) ==
    IF \E d \in Rows : documents[d].content_hash = h
    THEN CHOOSE d \in Rows : documents[d].content_hash = h
         /\ \A e \in Rows : documents[e].content_hash = h => d <= e
    ELSE NoDoc

\* os.path.exists(path)
path_exists(p) == p \in Paths /\ disk[p] # NoFile

\* The server starts on an empty database and an empty index; `files` is
\* what the directories hold.
InitOn(deployment, files) ==
    /\ documents = [d \in DocIds |-> NoRow]
    /\ document_chunks = EmptyBag
    /\ collection = {}
    /\ disk = files
    /\ nextDocId = 1
    /\ nUploads = 0
    /\ pc = [t \in Tasks |-> "idle"]
    /\ tk = [t \in Tasks |-> NoLocals]
    /\ last = NoRet
    /\ loop = "none"
    /\ procs = deployment
    /\ deleted = {}
    /\ job_fired = FALSE
    /\ conversations = 0
    /\ messages = <<>>
    /\ memories = 0
    /\ turn = NoTurn
    /\ nOps = 0
    /\ found = NoFound
    /\ store_op = NoStoreOp
    /\ call = NoCall

InitWith(deployment) == InitOn(deployment, [p \in Paths |-> NoFile])

Init == InitWith(FALSE)
InitProcs == InitWith(TRUE)

\* The server starts with a file in the watched folder.
InitFolder ==
    InitOn(FALSE, [p \in Paths |-> IF p = [dir |-> "watched", n |-> 1]
                                    THEN [bytes |-> "A", ext |-> ".PDF"]
                                    ELSE NoFile])

\* ------------------------------------------------------------ scheduling
\* Task t may take a step: it holds the event loop or the loop is free.
Holds(t) == procs \/ loop \in {"none", t}
\* A new operation starts on the idle task t: the tasks are alike, so it is
\* given to the first one that is idle.
CanStart(t) ==
    /\ pc[t] = "idle"
    /\ t = "t1" \/ pc["t1"] # "idle"
    /\ procs \/ loop = "none"
    /\ nOps < MaxOps
    /\ nOps' = nOps + 1
\* The outcome of the last operation stays / is replaced (what the last
\* retrieval found goes with it).
KeepLast == last' = last /\ found' = found
SetLast(outcome) == last' = outcome /\ found' = NoFound

\* The step as it would be if the task gave up the loop at every await.
Keep_suspending(t) == loop' = "none"

\* t goes on without suspending / t finishes or suspends.
Keep(t) == loop' = IF procs THEN "none" ELSE t
Release == loop' = "none"

\* Some task is running the pipeline on document d, or deleting it.
Busy(d) == \E u \in Tasks : pc[u] # "idle" /\ tk[u].doc = d

\* --------------------------------------------------- leaving an operation
\* ingest_file / _process_document returns to its caller.  The upload and
\* reprocess routes answer 200; the folder scan goes on with its loop.
Return(t, kind, d) ==
    IF tk[t].op = "scan"
    THEN /\ pc' = [pc EXCEPT ![t] = "scan"]
         /\ tk' = [tk EXCEPT ![t] = [NoLocals EXCEPT !.op = "scan", !.todo = tk[t].todo]]
         /\ KeepLast
         /\ Keep(t)
    ELSE /\ pc' = [pc EXCEPT ![t] = "idle"]
         /\ tk' = [tk EXCEPT ![t] = NoLocals]
         /\ SetLast([op |-> tk[t].op, kind |-> kind, doc |-> d])
         /\ Release

\* An exception leaves ingest_file (to = "raised") or is caught by its
\* handler (to = "except").
Raise(t, to, e) ==
    /\ pc' = [pc EXCEPT ![t] = to]
    /\ tk' = [tk EXCEPT ![t].err = e]
    /\ KeepLast
    /\ Keep(t)

\* ------------------------------------------------------ documents route
\* upload_document, up to `await file.read()`: the extension check.
UploadStart(t, bytes, ext) ==
    /\ CanStart(t)
    /\ nUploads + Cardinality({u \in Tasks : pc[u] = "read"}) < MaxUploads
    /\ IF Lower(ext) \notin SUPPORTED_EXTENSIONS
       THEN /\ pc' = [pc EXCEPT ![t] = "idle"]
            /\ tk' = [tk EXCEPT ![t] = NoLocals]
            /\ SetLast([op |-> "upload", kind |-> "http400", doc |-> NoDoc])
       ELSE /\ pc' = [pc EXCEPT ![t] = "read"]
            /\ tk' = [tk EXCEPT ![t] = [NoLocals EXCEPT !.op = "upload", !.body = bytes, !.ext = ext]]
            /\ SetLast(NoRet)
    /\ Release
    /\ UNCHANGED <<documents, document_chunks, collection, disk, nextDocId, nUploads, procs, job_fired, deleted, conversations, messages, memories, turn, store_op, call>>

\* upload_document after the read: save the bytes under a fresh name in the
\* upload directory and call ingest_file on it.
UploadSave(t) ==
    /\ pc[t] = "read"
    /\ Holds(t)
    /\ LET p == [dir |-> "uploads", n |-> nUploads + 1] IN
       /\ disk' = [disk EXCEPT ![p] = [bytes |-> tk[t].body, ext |-> tk[t].ext]]
       /\ tk' = [tk EXCEPT ![t].path = p]
    /\ nUploads' = nUploads + 1
    /\ pc' = [pc EXCEPT ![t] = "ingest"]
    /\ Keep(t)
    /\ UNCHANGED <<documents, document_chunks, collection, nextDocId, last, found, procs, job_fired, deleted, conversations, messages, memories, turn, store_op, call, nOps>>

\* upload_document, except branch: remove the saved file, answer 500.
UploadExcept(t) ==
    /\ pc[t] = "raised"
    /\ tk[t].op = "upload"
    /\ Holds(t)
    /\ disk' = [disk EXCEPT ![tk[t].path] = NoFile]
    /\ pc' = [pc EXCEPT ![t] = "idle"]
    /\ SetLast([op |-> "upload", kind |-> "http500", doc |-> tk[t].doc])
    /\ tk' = [tk EXCEPT ![t] = NoLocals]
    /\ Release
    /\ UNCHANGED <<documents, document_chunks, collection, nextDocId, nUploads, procs, job_fired, deleted, conversations, messages, memories, turn, store_op, call, nOps>>

\* A direct call of the service: ingest_file(file_path = p, original_filename
\* = a name with extension ext) on a file that is on disk.
IngestStart(t, p, ext) ==
    /\ CanStart(t)
    /\ path_exists(p)
    /\ pc' = [pc EXCEPT ![t] = "ingest"]
    /\ tk' = [tk EXCEPT ![t] = [NoLocals EXCEPT !.op = "ingest", !.path = p, !.ext = ext]]
    /\ SetLast(NoRet)
    /\ Keep(t)
    /\ UNCHANGED <<documents, document_chunks, collection, disk, nextDocId, nUploads, procs, job_fired, deleted, conversations, messages, memories, turn, store_op, call>>

\* The direct caller sees the exception.
IngestRaise(t) ==
    /\ pc[t] = "raised"
    /\ tk[t].op = "ingest"
    /\ Holds(t)
    /\ pc' = [pc EXCEPT ![t] = "idle"]
    /\ SetLast([op |-> "ingest", kind |-> "raised", doc |-> tk[t].doc])
    /\ tk' = [tk EXCEPT ![t] = NoLocals]
    /\ Release
    /\ UNCHANGED <<documents, document_chunks, collection, disk, nextDocId, nUploads, procs, job_fired, deleted, conversations, messages, memories, turn, store_op, call, nOps>>

\* ---------------------------------------------------------- ingest_file
\* ingest_file: the type check, the content hash and the duplicate lookup.
IngestCheck(t) ==
    /\ pc[t] = "ingest"
    /\ Holds(t)
    /\ IF get_document_type(tk[t].ext) = "unknown"
       THEN Raise(t, "raised", "unsupported")
       ELSE IF ~path_exists(tk[t].path)
       THEN Raise(t, "raised", "io")
       ELSE LET content_hash == disk[tk[t].path].bytes IN
            IF existing(content_hash) # NoDoc
            THEN Return(t, "existing", existing(content_hash))
            ELSE /\ pc' = [pc EXCEPT ![t] = "create"]
                 /\ tk' = [tk EXCEPT ![t].hash = content_hash]
                 /\ KeepLast
                 /\ Keep(t)
    /\ UNCHANGED <<documents, document_chunks, collection, disk, nextDocId, nUploads, procs, job_fired, deleted, conversations, messages, memories, turn, store_op, call, nOps>>

\* The documents table as it would be without the UNIQUE index.
content_hash_not_unique(h) == FALSE

\* UNIQUE index on documents.content_hash: TRUE when an insert with hash h
\* is refused (IntegrityError).
content_hash_conflict(h) == \E d \in Rows : documents[d].content_hash = h

\* ingest_file: insert the document row in status processing and commit.
IngestCreate(t) ==
    /\ pc[t] = "create"
    /\ Holds(t)
    /\ IF content_hash_conflict(tk[t].hash)
       THEN /\ Raise(t, "raised", "integrity")
            /\ UNCHANGED <<documents, nextDocId>>
       ELSE /\ nextDocId <= MaxDocs
            /\ documents' = [documents EXCEPT ![nextDocId] =
                   [status |-> PROCESSING, chunk_count |-> 0, error_message |-> NULL,
                    content_hash |-> tk[t].hash, file_path |-> tk[t].path,
                    doc_type |-> get_document_type(tk[t].ext),
                    is_watched |-> (tk[t].op = "scan")]]
            /\ nextDocId' = nextDocId + 1
            /\ pc' = [pc EXCEPT ![t] = "process"]
            /\ tk' = [tk EXCEPT ![t].doc = nextDocId]
            /\ KeepLast
            /\ Keep(t)
    /\ UNCHANGED <<document_chunks, collection, disk, nUploads, procs, job_fired, deleted, conversations, messages, memories, turn, store_op, call, nOps>>

SeqToBag(rows) ==
    [r \in {rows[i] : i \in 1..Len(rows)} |-> Cardinality({i \in 1..Len(rows) : rows[i] = r})]

\* The commit as it would be if the failure handler rolled the session back.
commit_rows_rolled_back(table, rows) == table

\* db.commit() with flushed chunk rows in the session: they join the table.
commit_rows(table, rows) == table (+) SeqToBag(rows)

\* doc.status = FAILED; doc.error_message = str(e)
mark_failed(row, e) == [row EXCEPT !.status = FAILED, !.error_message = e]

\* ingest_file, except branch: status failed, the message, commit (the
\* flushed chunk rows are committed with it), re-raise.
IngestExcept(t) ==
    /\ pc[t] = "except"
    /\ tk[t].op \in {"upload", "ingest", "scan"}
    /\ Holds(t)
    /\ documents' = [documents EXCEPT ![tk[t].doc] = mark_failed(@, tk[t].err)]
    /\ document_chunks' = commit_rows(document_chunks, tk[t].db_chunks)
    /\ pc' = [pc EXCEPT ![t] = "raised"]
    /\ tk' = [tk EXCEPT ![t].db_chunks = <<>>]
    /\ Keep(t)
    /\ UNCHANGED <<collection, disk, nextDocId, nUploads, last, found, procs, job_fired, deleted, conversations, messages, memories, turn, store_op, call, nOps>>

\* ---------------------------------------------------- _process_document
\* An exception inside _process_document: ingest_file catches it, the
\* reprocess route lets it through to its own handler.
FailTo(t) == IF tk[t].op = "reprocess" THEN "raised" ELSE "except"

\* session.add + flush of one DocumentChunk per chunk dict.
new_db_chunks(d, chunks) ==
    [i \in 1..Len(chunks) |->
        [document_id |-> d, chunk_index |-> chunks[i].index, chroma_id |-> NoChunkId]]

\* _process_document up to the flush: extract_text, chunk_text, chunk rows.
\* parse_ok: whether the PDF/DOCX parser accepts the file.
Process(t, parse_ok) ==
    /\ pc[t] = "process"
    /\ Holds(t)
    /\ LET doc == documents[tk[t].doc] IN
       IF ~path_exists(doc.file_path)
       THEN Raise(t, FailTo(t), "io")
       ELSE IF doc.doc_type \in {"pdf", "docx"} /\ ~parse_ok
       THEN Raise(t, FailTo(t), "extract")
       ELSE LET chunks == ChunksOf[disk[doc.file_path].bytes] IN
            IF Len(chunks) = 0
            THEN Raise(t, FailTo(t), "empty")
            ELSE /\ pc' = [pc EXCEPT ![t] = "embed"]
                 /\ tk' = [tk EXCEPT ![t].chunks = chunks,
                                     ![t].db_chunks = new_db_chunks(tk[t].doc, chunks),
                                     ![t].chroma_ids = <<>>,
                                     ![t].reqs = <<>>]
                 /\ KeepLast
                 /\ Keep(t)
    /\ UNCHANGED <<documents, document_chunks, collection, disk, nextDocId, nUploads, procs, job_fired, deleted, conversations, messages, memories, turn, store_op, call, nOps>>

\* The upsert as it would be if the index dropped the record.
upsert_dropped(coll, id, d, chunk) == coll

\* The upsert as it would be with an id made up afresh for every record
\* (a uuid) in place of the id computed from the chunk.
upsert_under_fresh_id(coll, id, d, chunk) ==
    coll \cup
    {[id |-> [document_id |-> d, chunk_index |-> chunk.index,
              content |-> [i \in 1..(Cardinality(coll) + 1) |-> "u"]],
      content |-> chunk.content, document_id |-> d, chunk_index |-> chunk.index]}

\* collection.upsert of one record: a record under the same id is replaced.
upsert(coll, id, d, chunk) ==
    {r \in coll : r.id # id} \cup
    {[id |-> id, content |-> chunk.content, document_id |-> d, chunk_index |-> chunk.index]}

\* One iteration of the loop of embed_and_store: the embedding request for
\* the next chunk, then the upsert.  outcome: what the two backends do.
Embed(t, outcome) ==
    /\ pc[t] = "embed"
    /\ Holds(t)
    /\ Len(tk[t].chroma_ids) < Len(tk[t].chunks)
    /\ LET chunk == tk[t].chunks[Len(tk[t].chroma_ids) + 1]
           chunk_id == generate_chunk_id(tk[t].doc, chunk.index, chunk.content)
       IN
       CASE outcome = "ok" ->
              /\ collection' = upsert(collection, chunk_id, tk[t].doc, chunk)
              /\ tk' = [tk EXCEPT ![t].reqs = Append(@, chunk.index),
                                  ![t].chroma_ids = Append(@, chunk_id)]
              /\ pc' = pc
              /\ store_op' = [op |-> "upsert", index_failed |-> FALSE, raised |-> FALSE]
         [] outcome = "embed_fails" ->
              /\ collection' = collection
              /\ store_op' = store_op
              /\ tk' = [tk EXCEPT ![t].reqs = Append(@, chunk.index), ![t].err = "embed"]
              /\ pc' = [pc EXCEPT ![t] = FailTo(t)]
         [] outcome = "upsert_fails" ->
              /\ collection' = collection
              /\ store_op' = [op |-> "upsert", index_failed |-> TRUE, raised |-> TRUE]
              /\ tk' = [tk EXCEPT ![t].reqs = Append(@, chunk.index), ![t].err = "index"]
              /\ pc' = [pc EXCEPT ![t] = FailTo(t)]
    /\ Keep(t)
    /\ UNCHANGED <<documents, document_chunks, disk, nextDocId, nUploads, last, found, procs, job_fired, deleted, conversations, messages, memories, turn, call, nOps>>

\* zip(db_chunks, chroma_ids): each row gets its vector id.
with_chroma_ids(db_chunks, chroma_ids) ==
    [i \in 1..Len(db_chunks) |->
        IF i <= Len(chroma_ids) THEN [db_chunks[i] EXCEPT !.chroma_id = chroma_ids[i]]
        ELSE db_chunks[i]]

\* UNIQUE index on document_chunks.chroma_id (NULLs excepted): TRUE when the
\* commit of rows is refused.
chroma_id_conflict(rows) ==
    \E i \in 1..Len(rows) :
        /\ rows[i].chroma_id # NoChunkId
        /\ \/ \E r \in BagToSet(document_chunks) : r.chroma_id = rows[i].chroma_id
           \/ \E j \in 1..Len(rows) : j # i /\ rows[j].chroma_id = rows[i].chroma_id

\* _process_document after embed_and_store: the vector ids on the chunk
\* rows, status ready, chunk_count, commit.
Finish(t) ==
    /\ pc[t] = "embed"
    /\ Holds(t)
    /\ Len(tk[t].chroma_ids) = Len(tk[t].chunks)
    /\ LET rows == with_chroma_ids(tk[t].db_chunks, tk[t].chroma_ids) IN
       IF chroma_id_conflict(rows)
       THEN /\ Raise(t, FailTo(t), "integrity")
            /\ UNCHANGED <<documents, document_chunks>>
       ELSE /\ document_chunks' = commit_rows(document_chunks, rows)
            /\ documents' = [documents EXCEPT ![tk[t].doc].status = READY,
                                              ![tk[t].doc].chunk_count = Len(tk[t].chunks)]
            /\ Return(t, "ok", tk[t].doc)
    /\ UNCHANGED <<collection, disk, nextDocId, nUploads, procs, job_fired, deleted, conversations, messages, memories, turn, store_op, call, nOps>>

\* ------------------------------------------------------ reprocess route
\* The reset as it would be without the status assignment.
reprocess_reset_keeps_status(row) ==
    [row EXCEPT !.error_message = NULL, !.chunk_count = 0]

\* doc.status = PROCESSING; doc.error_message = None; doc.chunk_count = 0
reprocess_reset(row) ==
    [row EXCEPT !.status = PROCESSING, !.error_message = NULL, !.chunk_count = 0]

\* reprocess_document up to the call of _process_document.
ReprocessStart(t, d) ==
    /\ CanStart(t)
    /\ ~Busy(d)
    /\ IF ~Exists(d)
       THEN /\ pc' = [pc EXCEPT ![t] = "idle"]
            /\ tk' = [tk EXCEPT ![t] = NoLocals]
            /\ SetLast([op |-> "reprocess", kind |-> "http404", doc |-> d])
            /\ Release
            /\ UNCHANGED documents
       ELSE IF ~path_exists(documents[d].file_path)
       THEN /\ pc' = [pc EXCEPT ![t] = "idle"]
            /\ tk' = [tk EXCEPT ![t] = NoLocals]
            /\ SetLast([op |-> "reprocess", kind |-> "http400", doc |-> d])
            /\ Release
            /\ UNCHANGED documents
       ELSE /\ documents' = [documents EXCEPT ![d] = reprocess_reset(@)]
            /\ pc' = [pc EXCEPT ![t] = "process"]
            /\ tk' = [tk EXCEPT ![t] = [NoLocals EXCEPT !.op = "reprocess", !.doc = d]]
            /\ SetLast(NoRet)
            /\ Keep(t)
    /\ UNCHANGED <<document_chunks, collection, disk, nextDocId, nUploads, procs, job_fired, deleted, conversations, messages, memories, turn, store_op, call>>

\* reprocess_document, except branch: answer 500; the session is closed and
\* what it had flushed is rolled back.
ReprocessExcept(t) ==
    /\ pc[t] = "raised"
    /\ tk[t].op = "reprocess"
    /\ Holds(t)
    /\ pc' = [pc EXCEPT ![t] = "idle"]
    /\ SetLast([op |-> "reprocess", kind |-> "http500", doc |-> tk[t].doc])
    /\ tk' = [tk EXCEPT ![t] = NoLocals]
    /\ Release
    /\ UNCHANGED <<documents, document_chunks, collection, disk, nextDocId, nUploads, procs, job_fired, deleted, conversations, messages, memories, turn, store_op, call, nOps>>

\* ------------------------------------------------------- delete_document
\* collection.delete(where = {"document_id": d}); an exception of the index
\* is logged and swallowed.
delete_document_chunks(coll, d, index_fails) ==
    IF index_fails THEN coll ELSE {r \in coll : r.document_id # d}

\* The delete route and IngestionService.delete_document, as one step.
\* index_fails: collection.delete raises; remove_fails: os.remove raises.
Delete(t, d, index_fails, remove_fails) ==
    /\ CanStart(t)
    /\ ~Busy(d)
    /\ IF ~Exists(d)
       THEN /\ SetLast([op |-> "delete", kind |-> "false", doc |-> d])
            /\ UNCHANGED <<documents, document_chunks, collection, disk, store_op, deleted>>
       ELSE /\ collection' = delete_document_chunks(collection, d, index_fails)
            /\ store_op' = [op |-> "delete", index_failed |-> index_fails, raised |-> FALSE]
            /\ disk' = IF path_exists(documents[d].file_path) /\ ~remove_fails
                       THEN [disk EXCEPT ![documents[d].file_path] = NoFile]
                       ELSE disk
            /\ documents' = [documents EXCEPT ![d] = NoRow]
            /\ document_chunks' =
                   [r \in {x \in BagToSet(document_chunks) : x.document_id # d} |-> document_chunks[r]]
            /\ SetLast([op |-> "delete", kind |-> "true", doc |-> d])
            /\ deleted' = IF documents[d].is_watched
                          THEN deleted \cup {documents[d].content_hash}
                          ELSE deleted
    /\ pc' = [pc EXCEPT ![t] = "idle"]
    /\ tk' = [tk EXCEPT ![t] = NoLocals]
    /\ Release
    /\ UNCHANGED <<nextDocId, nUploads, procs, job_fired, conversations, messages, memories, turn, call>>

\* ----------------------------------------------------------- folder scan
\* scan_watched_folder / ingest_watched_folder: os.scandir of the folder.
ScanStart(t) ==
    /\ CanStart(t)
    /\ pc' = [pc EXCEPT ![t] = "scan"]
    /\ tk' = [tk EXCEPT ![t] = [NoLocals EXCEPT !.op = "scan",
                                !.todo = {p \in WatchedPaths : path_exists(p)}]]
    /\ SetLast(NoRet)
    /\ Keep(t)
    /\ UNCHANGED <<documents, document_chunks, collection, disk, nextDocId, nUploads, procs, job_fired, deleted, conversations, messages, memories, turn, store_op, call>>

\* One iteration of the loop of ingest_watched_folder, up to the call of
\* ingest_file; the loop ends when no entry is left. The extension test,
\* compute_file_hash and the duplicate lookup are before the try: when the
\* file cannot be read or the lookup fails (hashed = FALSE) the exception
\* leaves ingest_watched_folder.
ScanNext(t, hashed) ==
    /\ pc[t] = "scan"
    /\ Holds(t)
    /\ IF tk[t].todo = {}
       THEN /\ pc' = [pc EXCEPT ![t] = "idle"]
            /\ tk' = [tk EXCEPT ![t] = NoLocals]
            /\ SetLast([op |-> "scan", kind |-> "ok", doc |-> NoDoc])
            /\ Release
       ELSE \E entry \in tk[t].todo :
            /\ KeepLast
            /\ Keep(t)
            /\ IF path_exists(entry) /\ Lower(disk[entry].ext) \notin SUPPORTED_EXTENSIONS
               THEN /\ pc' = pc
                    /\ tk' = [tk EXCEPT ![t].todo = @ \ {entry}]
               ELSE IF ~path_exists(entry) \/ ~hashed
               THEN /\ pc' = [pc EXCEPT ![t] = "scan_raised"]
                    /\ tk' = [tk EXCEPT ![t].todo = @ \ {entry}, ![t].err = "io"]
               ELSE IF existing(disk[entry].bytes) # NoDoc
               THEN /\ pc' = pc
                    /\ tk' = [tk EXCEPT ![t].todo = @ \ {entry}]
               ELSE /\ pc' = [pc EXCEPT ![t] = "ingest"]
                    /\ tk' = [tk EXCEPT ![t].todo = @ \ {entry},
                                        ![t].path = entry,
                                        ![t].ext = disk[entry].ext]
    /\ UNCHANGED <<documents, document_chunks, collection, disk, nextDocId, nUploads, procs, job_fired, deleted, conversations, messages, memories, turn, store_op, call, nOps>>

\* scan_watched_folder, except branch: "Folder scan failed" is logged and
\* the run ends with the entries that were not visited.
ScanFailed(t) ==
    /\ pc[t] = "scan_raised"
    /\ Holds(t)
    /\ pc' = [pc EXCEPT ![t] = "idle"]
    /\ tk' = [tk EXCEPT ![t] = NoLocals]
    /\ SetLast([op |-> "scan", kind |-> "failed", doc |-> NoDoc])
    /\ Release
    /\ UNCHANGED <<documents, document_chunks, collection, disk, nextDocId, nUploads, procs, job_fired, deleted, conversations, messages, memories, turn, store_op, call, nOps>>

\* ingest_watched_folder, except branch: the failure is logged and the
\* loop goes on.
ScanExcept(t) ==
    /\ pc[t] = "raised"
    /\ tk[t].op = "scan"
    /\ Holds(t)
    /\ pc' = [pc EXCEPT ![t] = "scan"]
    /\ tk' = [tk EXCEPT ![t] = [NoLocals EXCEPT !.op = "scan", !.todo = tk[t].todo]]
    /\ Keep(t)
    /\ UNCHANGED <<documents, document_chunks, collection, disk, nextDocId, nUploads, last, found, procs, job_fired, deleted, conversations, messages, memories, turn, store_op, call, nOps>>

\* ------------------------------------------------------------- retrieval
Queries == {"q1", "q2"}

\* The top_k arguments of the model: 1..MaxTopK.
MaxTopK == 2

\* Optional[List[int]]: None, or a list.
NoIds == [given |-> FALSE, ids |-> <<>>]

\* The document_ids arguments: None, the empty list, a list of one id.
IdLists == {NoIds} \cup {[given |-> TRUE, ids |-> l] : l \in {<<>>} \cup {<<d>> : d \in DocIds}}

\* settings.retrieval_score_threshold (0.3), in units of 0.00001.
retrieval_score_threshold == 30000

\* score = 1 - distance between the embedding of the query and that of a
\* chunk, in units of 0.00001.  The embeddings come from the external
\* model; the table gives one score above, one at and one below the
\* threshold, and one tie.
Score(query, content) ==
    LET c == IF content = <<>> THEN "" ELSE Head(content) IN
    CASE query = "q1" /\ c = "a" -> 90000
      [] query = "q1" /\ c = "b" -> 30000
      [] query = "q1" -> 29996
      [] query = "q2" /\ c \in {"a", "b"} -> 50000
      [] OTHER -> 70004

\* if document_ids: where = {"document_id": {"$in": document_ids}}
where_clause(document_ids) ==
    IF document_ids.given /\ document_ids.ids # <<>> THEN document_ids ELSE NoIds

\* The record passes the where clause of the query.
matches(r, where) ==
    ~where.given \/ \E i \in 1..Len(where.ids) : where.ids[i] = r.document_id

\* collection.query(n_results = n, where = where): the answers the index
\* may give, the n nearest records that pass the filter, nearest first;
\* records at the same distance come in any order.
query_answers(coll, query, where, n) ==
    LET cand == {r \in coll : matches(r, where)}
        k == Min(n, Cardinality(cand))
    IN {a \in [1..k -> cand] :
          /\ \A i \in 1..k : \A j \in 1..k : i # j => a[i] # a[j]
          /\ \A i \in 1..k : \A j \in 1..k :
                i < j => Score(query, a[i].content) >= Score(query, a[j].content)
          /\ \A r \in cand :
                (\A i \in 1..k : a[i] # r) =>
                   \A i \in 1..k : Score(query, a[i].content) >= Score(query, r.content)}

\* The loop as it would be without the comparison with the threshold.
formatted_unfiltered(answer, query) ==
    [i \in 1..Len(answer) |->
        [chroma_id |-> answer[i].id, content |-> answer[i].content,
         metadata |-> [document_id |-> answer[i].document_id,
                       chunk_index |-> answer[i].chunk_index],
         score |-> Score(query, answer[i].content)]]

\* The loop over the answer: the records at or above the threshold.
RECURSIVE formatted(_, _)
formatted(answer, query) ==
    IF answer = <<>> THEN <<>>
    ELSE LET r == Head(answer)
             score == Score(query, r.content)
         IN (IF score >= retrieval_score_threshold
             THEN <<[chroma_id |-> r.id, content |-> r.content,
                     metadata |-> [document_id |-> r.document_id,
                                   chunk_index |-> r.chunk_index],
                     score |-> score]>>
             ELSE <<>>)
            \o formatted(Tail(answer), query)

\* x put into a sequence sorted by score, highest first, behind its equals.
RECURSIVE insert_by_score(_, _)
insert_by_score(sorted, x) ==
    IF sorted = <<>> THEN <<x>>
    ELSE IF Head(sorted).score >= x.score
    THEN <<Head(sorted)>> \o insert_by_score(Tail(sorted), x)
    ELSE <<x>> \o sorted

\* sorted(results, key = score, reverse = True): stable.
RECURSIVE sorted_by_score(_)
sorted_by_score(results) ==
    IF results = <<>> THEN <<>>
    ELSE insert_by_score(sorted_by_score(SubSeq(results, 1, Len(results) - 1)),
                         results[Len(results)])

\* round(score, 4): from units of 0.00001 to units of 0.0001.
round4(score) == (score + 5) \div 10

\* The loop as it would be without the lookup of the document row.
citations_of_all(results) ==
    [i \in 1..Len(results) |->
        [document_id |-> results[i].metadata.document_id,
         chunk_content |-> results[i].content,
         relevance_score |-> round4(results[i].score)]]

\* The loop of retrieve_context: one citation per result whose document row
\* is found.
RECURSIVE citations_of(_)
citations_of(results) ==
    IF results = <<>> THEN <<>>
    ELSE LET r == Head(results) IN
         (IF Exists(r.metadata.document_id)
          THEN <<[document_id |-> r.metadata.document_id, chunk_content |-> r.content,
                  relevance_score |-> round4(r.score)]>>
          ELSE <<>>)
         \o citations_of(Tail(results))

\* The handler as it would be if it let the exception through.
except_search_reraises(e) == "raised"

\* except Exception: log, return [] -- how retrieve_context ends when
\* search_similar raised e.
except_search(e) == "ok"

SearchOutcomes == {"ok", "embed_fails", "index_fails"}

\* retrieve_context(query, top_k, document_ids) with search_similar, as one
\* step.  outcome: what the embedding model and the index do.
Retrieve(t, query, top_k, document_ids, outcome) ==
    /\ CanStart(t)
    /\ LET count == Cardinality(collection)
           raised(e) ==
               /\ found' = [NoFound EXCEPT !.search = "raised"]
               /\ last' = [op |-> "retrieve", kind |-> except_search(e), doc |-> NoDoc]
           returned(results) ==
               /\ found' = [search |-> "returned", top_k |-> top_k,
                            document_ids |-> document_ids,
                            results |-> results, citations |-> citations_of(results)]
               /\ last' = [op |-> "retrieve", kind |-> "ok", doc |-> NoDoc]
       IN
       IF outcome = "index_fails"
       THEN /\ raised("index")
            /\ store_op' = [op |-> "search", index_failed |-> TRUE, raised |-> TRUE]
       ELSE IF count = 0
       THEN /\ returned(<<>>)
            /\ store_op' = [op |-> "search", index_failed |-> FALSE, raised |-> FALSE]
       ELSE IF outcome = "embed_fails"
       THEN /\ raised("embed")
            /\ store_op' = [op |-> "search", index_failed |-> FALSE, raised |-> TRUE]
       ELSE /\ \E answer \in query_answers(collection, query, where_clause(document_ids),
                                           Min(top_k, count)) :
                  returned(sorted_by_score(formatted(answer, query)))
            /\ store_op' = [op |-> "search", index_failed |-> FALSE, raised |-> FALSE]
    /\ Release
    /\ UNCHANGED <<documents, document_chunks, collection, disk, nextDocId, nUploads,
                   pc, tk, procs, job_fired, deleted, conversations, messages, memories, turn, call>>

\* The user puts a file into the watched folder, under the first name that
\* is free there.
DropFile(n, bytes, ext) ==
    /\ ~path_exists([dir |-> "watched", n |-> n])
    /\ \A m \in 1..(n - 1) : path_exists([dir |-> "watched", n |-> m])
    /\ nOps < MaxOps
    /\ nOps' = nOps + 1
    /\ disk' = [disk EXCEPT ![[dir |-> "watched", n |-> n]] = [bytes |-> bytes, ext |-> ext]]
    /\ deleted' = deleted \ {bytes}
    /\ UNCHANGED <<documents, document_chunks, collection, nextDocId, nUploads, pc, tk, last, found, loop, procs, job_fired, conversations, messages, memories, turn, store_op, call>>

EmbedOutcomes == {"ok", "embed_fails", "upsert_fails"}

\* ---------------------------------------------------------- daily digest
\* run_daily_digest, the scheduler's job, which the cron trigger fires once
\* a day: generate_daily_digest is called whether or not a digest of today
\* is stored.
DigestJobStart(t) ==
    /\ CanStart(t)
    /\ ~job_fired
    /\ job_fired' = TRUE
    /\ pc' = [pc EXCEPT ![t] = "digest"]
    /\ tk' = [tk EXCEPT ![t] = [NoLocals EXCEPT !.op = "digest_job"]]
    /\ SetLast(NoRet)
    /\ Keep(t)
    /\ UNCHANGED <<documents, document_chunks, collection, disk, nextDocId, nUploads,
                   procs, deleted, conversations, messages, memories, turn, store_op, call>>

\* get_today_digest: the stored digest of today is returned when there is
\* one, else generate_daily_digest is called.
DigestRequestStart(t) ==
    /\ CanStart(t)
    /\ IF memories > 0
       THEN /\ pc' = pc
            /\ tk' = tk
            /\ SetLast([op |-> "digest_request", kind |-> "existing", doc |-> NoDoc])
            /\ Release
       ELSE /\ pc' = [pc EXCEPT ![t] = "digest"]
            /\ tk' = [tk EXCEPT ![t] = [NoLocals EXCEPT !.op = "digest_request"]]
            /\ SetLast(NoRet)
            /\ Keep(t)
    /\ UNCHANGED <<documents, document_chunks, collection, disk, nextDocId, nUploads,
                   procs, job_fired, deleted, conversations, messages, memories, turn, store_op, call>>

\* generate_daily_digest from the call of the text generator on: the digest
\* is stored as a memory, or the failure is logged and None returned.
DigestGenerate(t, generated) ==
    /\ pc[t] = "digest"
    /\ Holds(t)
    /\ memories' = IF generated THEN memories + 1 ELSE memories
    /\ SetLast([op |-> tk[t].op, kind |-> IF generated THEN "generated" ELSE "none",
                doc |-> NoDoc])
    /\ pc' = [pc EXCEPT ![t] = "idle"]
    /\ tk' = [tk EXCEPT ![t] = NoLocals]
    /\ Release
    /\ UNCHANGED <<documents, document_chunks, collection, disk, nextDocId, nUploads,
                   procs, job_fired, deleted, conversations, messages, turn, store_op, call, nOps>>

\* ------------------------------------------------------------ chat turn
\* The length of the longest stream of the text generator, and the chat
\* turns of a behaviour.
MaxTokens == 2
MaxTurns == 2

\* The k-th token of a stream of the text generator.
Token(k) == <<"token", k>>

\* The conversation ids a request may name.
MaxConversations == 1

\* Messages a conversation holds before a chat turn, in the calls of the
\* history query.
MaxStored == 21

\* The questions of the chat turns.
ChatContents == {"q1"}

\* settings.retrieval_top_k
retrieval_top_k == 5

\* .limit(20) of the history query of chat_stream.
HISTORY_LIMIT == 20

\* The json of the events of the stream.
SourcesEvent(citations) == [type |-> "sources", sources |-> citations]
TokenEvent(token) == [type |-> "token", content |-> token]
DoneEvent(conv, message_id) ==
    [type |-> "done", conversation_id |-> conv, message_id |-> message_id]
ErrorEvent(e) == [type |-> "error", error |-> e]

\* Message(conversation_id, role, content): a row of the messages table.
Message(conv, role, content) == [conversation_id |-> conv, role |-> role, content |-> content]

\* The accumulation as it would be if the response were restarted at every
\* token.
accumulate_latest_only(full_response, token) == <<token>>

\* full_response += token
accumulate(full_response, token) == Append(full_response, token)

\* db.query(Message).filter(Message.conversation_id == conv)
\*   .order_by(Message.id).limit(HISTORY_LIMIT).all(), as the ids of the rows:
\* the id of a message is its position in the table.
RECURSIVE rows_of_conversation(_, _, _, _)
rows_of_conversation(msgs, conv, i, limit) ==
    IF i > Len(msgs) \/ limit = 0 THEN <<>>
    ELSE IF msgs[i].conversation_id = conv
    THEN <<i>> \o rows_of_conversation(msgs, conv, i + 1, limit - 1)
    ELSE rows_of_conversation(msgs, conv, i + 1, limit)

\* The query as it would be without its limit.
history_messages_unlimited(msgs, conv) == rows_of_conversation(msgs, conv, 1, Len(msgs))

history_messages(msgs, conv) == rows_of_conversation(msgs, conv, 1, HISTORY_LIMIT)

\* history_messages[:-1]
history_rows(msgs, conv) ==
    LET rows == history_messages(msgs, conv) IN SubSeq(rows, 1, Len(rows) - 1)

\* [{"role": msg.role.value, "content": msg.content} for msg in history_messages[:-1]]
chat_history(msgs, conv) ==
    LET rows == history_rows(msgs, conv) IN
    [k \in 1..Len(rows) |-> [role |-> msgs[rows[k]].role, content |-> msgs[rows[k]].content]]

\* chat_stream up to the return of the StreamingResponse: the conversation
\* is looked up or created and the user message is committed.
\* conversation_id = 0 stands for None.
ChatStart(t, content, conversation_id) ==
    /\ CanStart(t)
    /\ Cardinality({i \in 1..Len(messages) : messages[i].role = "user"}) < MaxTurns
    /\ Release
    /\ IF conversation_id # 0 /\ conversation_id > conversations
       THEN /\ pc' = pc
            /\ tk' = tk
            /\ SetLast([op |-> "chat", kind |-> "http404", doc |-> NoDoc])
            /\ UNCHANGED <<conversations, messages>>
       ELSE LET conv == IF conversation_id # 0 THEN conversation_id ELSE conversations + 1 IN
            /\ conversations' = IF conversation_id # 0 THEN conversations ELSE conversations + 1
            /\ messages' = Append(messages, Message(conv, "user", content))
            /\ pc' = [pc EXCEPT ![t] = "chat"]
            /\ tk' = [tk EXCEPT ![t] = [NoLocals EXCEPT !.op = "chat",
                         !.turn = [NoTurn EXCEPT !.conv = conv, !.content = content,
                                                 !.user_msg = Len(messages) + 1,
                                                 !.history = chat_history(messages', conv)]]]
            /\ SetLast(NoRet)
    /\ UNCHANGED <<documents, document_chunks, collection, disk, nextDocId, nUploads,
                   procs, job_fired, deleted, memories, turn, store_op, call>>

\* What retrieve_context(query) returns: the citations of one of the answers
\* of the index, or [] when the search raised or the index is empty.
context_citations(query, outcome) ==
    LET count == Cardinality(collection) IN
    IF outcome # "ok" \/ count = 0 THEN {<<>>}
    ELSE {citations_of(sorted_by_score(formatted(answer, query))) :
             answer \in query_answers(collection, query, NoIds, Min(retrieval_top_k, count))}

\* generate(), from its start to the yield of the sources event, or to the
\* call of generate_stream when there are no citations.
ChatRetrieve(t, outcome) ==
    /\ pc[t] = "chat"
    /\ Holds(t)
    /\ \E citations \in context_citations(tk[t].turn.content, outcome) :
          IF citations # <<>>
          THEN /\ tk' = [tk EXCEPT ![t].turn.events = Append(@, SourcesEvent(citations)),
                                   ![t].turn.llm = "open"]
               /\ Release
          ELSE /\ tk' = [tk EXCEPT ![t].turn.llm = "open"]
               /\ Keep(t)
    /\ pc' = [pc EXCEPT ![t] = "llm"]
    /\ UNCHANGED <<documents, document_chunks, collection, disk, nextDocId, nUploads, last,
                   found, procs, job_fired, deleted, conversations, messages, memories, turn, store_op, call, nOps>>

\* One iteration of the loop over generate_stream: the token is added to
\* full_response and handed to the client.  failed: the token is the error
\* text that generate_stream yields when the generator's client raised.
ChatToken(t, failed) ==
    /\ pc[t] = "llm"
    /\ Holds(t)
    /\ tk[t].turn.llm = "open"
    /\ Len(tk[t].turn.full_response) < MaxTokens
    /\ LET token == IF failed THEN <<"[Error]", 0>>
                    ELSE Token(Len(tk[t].turn.full_response) + 1) IN
       tk' = [tk EXCEPT ![t].turn.full_response = accumulate(@, token),
                        ![t].turn.events = Append(@, TokenEvent(token)),
                        ![t].turn.llm = IF failed THEN "failed" ELSE "open"]
    /\ Release
    /\ UNCHANGED <<documents, document_chunks, collection, disk, nextDocId, nUploads, pc, last,
                   found, procs, job_fired, deleted, conversations, messages, memories, turn, store_op, call, nOps>>

\* The end of generate() as it would be if the done event were sent whether
\* or not the commit succeeded.
ChatFinish_done_without_commit(t, committed) ==
    /\ pc[t] = "llm"
    /\ Holds(t)
    /\ messages' = IF committed
                   THEN Append(messages,
                               Message(tk[t].turn.conv, "assistant", tk[t].turn.full_response))
                   ELSE messages
    /\ tk' = [tk EXCEPT ![t].turn.assistant_msg = IF committed THEN Len(messages) + 1 ELSE 0,
                        ![t].turn.llm = "ended",
                        ![t].turn.events =
                            Append(@, DoneEvent(tk[t].turn.conv, Len(messages) + 1))]
    /\ pc' = [pc EXCEPT ![t] = "sent"]
    /\ Release
    /\ UNCHANGED <<documents, document_chunks, collection, disk, nextDocId, nUploads, last,
                   found, procs, job_fired, deleted, conversations, memories, turn, store_op, call, nOps>>

\* generate() after the loop: the assistant message is committed and the
\* done event handed to the client; when the commit raises, the error event.
ChatFinish(t, committed) ==
    /\ pc[t] = "llm"
    /\ Holds(t)
    /\ IF committed
       THEN /\ messages' = Append(messages,
                                  Message(tk[t].turn.conv, "assistant", tk[t].turn.full_response))
            /\ tk' = [tk EXCEPT ![t].turn.assistant_msg = Len(messages) + 1,
                                ![t].turn.llm = "ended",
                                ![t].turn.events =
                                    Append(@, DoneEvent(tk[t].turn.conv, Len(messages) + 1))]
       ELSE /\ messages' = messages
            /\ tk' = [tk EXCEPT ![t].turn.llm = "ended",
                                ![t].turn.events = Append(@, ErrorEvent("commit"))]
    /\ pc' = [pc EXCEPT ![t] = "sent"]
    /\ Release
    /\ UNCHANGED <<documents, document_chunks, collection, disk, nextDocId, nUploads, last,
                   found, procs, job_fired, deleted, conversations, memories, turn, store_op, call, nOps>>

\* What is kept of a turn that has ended: the ids of its messages, the state
\* of its token stream and how it ended.
Ended(x, outcome) ==
    [NoTurn EXCEPT !.conv = x.conv, !.user_msg = x.user_msg,
                   !.assistant_msg = x.assistant_msg, !.llm = x.llm,
                   !.outcome = outcome]

\* generate() returns after its last yield: the response is complete.
ChatClose(t) ==
    /\ pc[t] = "sent"
    /\ Holds(t)
    /\ turn' = Ended(tk[t].turn, "complete")
    /\ pc' = [pc EXCEPT ![t] = "idle"]
    /\ tk' = [tk EXCEPT ![t] = NoLocals]
    /\ SetLast([op |-> "chat", kind |-> "ok", doc |-> NoDoc])
    /\ Release
    /\ UNCHANGED <<documents, document_chunks, collection, disk, nextDocId, nUploads,
                   procs, job_fired, deleted, conversations, messages, memories, store_op, call, nOps>>

\* The client disconnects while generate() is suspended at a yield, or not
\* yet started: the server cancels the response, the generator is closed at
\* its yield (CancelledError and GeneratorExit are not caught by `except
\* Exception`) and nothing more of it runs.
ChatDisconnect(t) ==
    /\ pc[t] \in {"chat", "llm", "sent"}
    /\ loop = "none"
    /\ turn' = Ended(tk[t].turn, "disconnected")
    /\ pc' = [pc EXCEPT ![t] = "idle"]
    /\ tk' = [tk EXCEPT ![t] = NoLocals]
    /\ SetLast([op |-> "chat", kind |-> "disconnected", doc |-> NoDoc])
    /\ Release
    /\ UNCHANGED <<documents, document_chunks, collection, disk, nextDocId, nUploads,
                   procs, job_fired, deleted, conversations, messages, memories, store_op, call, nOps>>

\* The write path: the document routes, the folder scan, the user's files.
NextWrites ==
    \/ \E t \in Tasks, bytes \in Contents, ext \in Exts : UploadStart(t, bytes, ext)
    \/ \E t \in Tasks : UploadSave(t)
    \/ \E t \in Tasks : UploadExcept(t)
    \/ \E t \in Tasks, p \in Paths, ext \in Exts : IngestStart(t, p, ext)
    \/ \E t \in Tasks : IngestRaise(t)
    \/ \E t \in Tasks : IngestCheck(t)
    \/ \E t \in Tasks : IngestCreate(t)
    \/ \E t \in Tasks : IngestExcept(t)
    \/ \E t \in Tasks, parse_ok \in BOOLEAN : Process(t, parse_ok)
    \/ \E t \in Tasks, outcome \in EmbedOutcomes : Embed(t, outcome)
    \/ \E t \in Tasks : Finish(t)
    \/ \E t \in Tasks, d \in DocIds : ReprocessStart(t, d)
    \/ \E t \in Tasks : ReprocessExcept(t)
    \/ \E t \in Tasks, d \in DocIds, index_fails \in BOOLEAN, remove_fails \in BOOLEAN :
          Delete(t, d, index_fails, remove_fails)
    \/ \E t \in Tasks : ScanStart(t)
    \/ \E t \in Tasks, hashed \in BOOLEAN : ScanNext(t, hashed)
    \/ \E t \in Tasks : ScanFailed(t)
    \/ \E t \in Tasks : ScanExcept(t)
    \/ \E n \in 1..MaxWatched, bytes \in Contents, ext \in Exts : DropFile(n, bytes, ext)

Next ==
    \/ NextWrites
    \/ \E t \in Tasks : DigestJobStart(t)
    \/ \E t \in Tasks : DigestRequestStart(t)
    \/ \E t \in Tasks, generated \in BOOLEAN : DigestGenerate(t, generated)
    \/ \E t \in Tasks, query \in Queries, top_k \in 1..MaxTopK, document_ids \in IdLists,
          outcome \in SearchOutcomes : Retrieve(t, query, top_k, document_ids, outcome)

\* One server process: requests, the scheduler and retrievals on one loop.
Spec == Init /\ [][Next]_vars
\* Several worker processes writing to the same database and index.
SpecProcs == InitProcs /\ [][NextWrites]_vars
\* One server process whose watched folder holds a file at the start.
SpecFolder == InitFolder /\ [][Next]_vars

\* The chat route, with the folder scan that fills the index it searches
\* (the files are readable, the parser and the embedding backend work).
NextChat ==
    \/ \E n \in 1..MaxWatched, bytes \in Contents : DropFile(n, bytes, ".PDF")
    \/ \E t \in Tasks : ScanStart(t)
    \/ \E t \in Tasks : ScanNext(t, TRUE)
    \/ \E t \in Tasks : IngestCheck(t)
    \/ \E t \in Tasks : IngestCreate(t)
    \/ \E t \in Tasks : Process(t, TRUE)
    \/ \E t \in Tasks : Embed(t, "ok")
    \/ \E t \in Tasks : Finish(t)
    \/ \E t \in Tasks, content \in ChatContents, conversation_id \in 0..MaxConversations :
          ChatStart(t, content, conversation_id)
    \/ \E t \in Tasks, outcome \in SearchOutcomes : ChatRetrieve(t, outcome)
    \/ \E t \in Tasks, failed \in BOOLEAN : ChatToken(t, failed)
    \/ \E t \in Tasks, committed \in BOOLEAN : ChatFinish(t, committed)
    \/ \E t \in Tasks : ChatClose(t)
    \/ \E t \in Tasks : ChatDisconnect(t)

\* One server process serving chat turns.
SpecChat == Init /\ [][NextChat]_vars

\* -------------------------------------------------------- pure functions
\* One call per behaviour: the functions keep nothing between calls.
\* The characters of the texts handed to chunk_text.
Chars == {"a", ".", " ", "LF"}

\* The text of the next chunk_text call gets one more character.
InputChar(c) ==
    /\ call.fn = "none"
    /\ Len(call.text) < MaxTextLen
    /\ call' = [call EXCEPT !.text = Append(@, c)]
    /\ UNCHANGED <<documents, document_chunks, collection, disk, nextDocId, nUploads,
                   pc, tk, last, loop, nOps, procs, job_fired, deleted, conversations, messages, memories, turn, found, store_op>>

\* chunk_text(text, chunk_size, chunk_overlap) is called on the text.
ChunkTextCall(size, overlap) ==
    /\ call.fn = "none"
    /\ overlap < size
    /\ call' = [fn |-> "chunk_text", text |-> call.text, chunk_size |-> size,
                chunk_overlap |-> overlap, chunks |-> chunk_text(call.text, size, overlap)]
    /\ UNCHANGED <<documents, document_chunks, collection, disk, nextDocId, nUploads,
                   pc, tk, last, loop, nOps, procs, job_fired, deleted, conversations, messages, memories, turn, found, store_op>>

\* A content of n times "x" followed by the character c.
Padded(n, c) == [i \in 1..(n + 1) |-> IF i <= n THEN "x" ELSE c]

\* Chunk contents: short ones, contents that differ in their 100th character
\* and contents that differ in their 101st character only.
IdContents == {Padded(0, c) : c \in {"a", "b"}}
              \cup {Padded(ID_CONTENT_PREFIX - 1, c) : c \in {"a", "b"}}
              \cup {Padded(ID_CONTENT_PREFIX, c) : c \in {"a", "b"}}

IdInputs == [document_id : DocIds, chunk_index : {0, 1}, content : IdContents]

\* generate_chunk_id is called on x and on y.
ChunkIdCall(x, y) ==
    /\ call = NoCall
    /\ call' = [fn |-> "generate_chunk_id", x |-> x, y |-> y,
                id_x |-> generate_chunk_id(x.document_id, x.chunk_index, x.content),
                id_y |-> generate_chunk_id(y.document_id, y.chunk_index, y.content)]
    /\ UNCHANGED <<documents, document_chunks, collection, disk, nextDocId, nUploads,
                   pc, tk, last, loop, nOps, procs, job_fired, deleted, conversations, messages, memories, turn, found, store_op>>

\* --------------------------------------------------- build_context_prompt
\* A string is the sequence of its pieces: fixed texts, the decimal form of
\* a number, a title, and the characters of a content.
CONTEXT_HEADER == "RELEVANT CONTEXT FROM YOUR KNOWLEDGE BASE:"
CONTEXT_FOOTER == "Use the above context to answer the user's question."

\* "\n".join(parts)
RECURSIVE join_lines(_)
join_lines(parts) ==
    IF parts = <<>> THEN <<>>
    ELSE IF Len(parts) = 1 THEN Head(parts)
    ELSE Head(parts) \o <<"LF">> \o join_lines(Tail(parts))

\* str(i), for the numbers of one digit.
str(i) == <<"0", "1", "2", "3", "4", "5", "6", "7", "8", "9">>[i + 1]

\* The block as it would be if enumerate counted from 0.
source_block_from_zero(i, citation) ==
    <<"[Source ", str(i - 1), ": ", citation.document_title, "]", "LF">>
        \o citation.chunk_content \o <<"LF">>

\* f"[Source {i}: {citation.document_title}]\n{citation.chunk_content}\n"
source_block(i, citation) ==
    <<"[Source ", str(i), ": ", citation.document_title, "]", "LF">>
        \o citation.chunk_content \o <<"LF">>

\* RetrievalService.build_context_prompt(citations)
build_context_prompt(citations) ==
    IF citations = <<>> THEN <<>>
    ELSE join_lines(<<<<CONTEXT_HEADER, "LF">>>>
                    \o [i \in 1..Len(citations) |-> source_block(i, citations[i])]
                    \o <<<<"LF", CONTEXT_FOOTER>>>>)

\* The citations handed to build_context_prompt: two titles, a content of
\* one line and a content of two lines.
PromptCitations ==
    [document_id : {1}, document_title : {"T1", "T2"},
     chunk_content : {<<"a">>, <<"b", "LF", "a">>}, relevance_score : {0}]

\* The citation sequences of length n.
PromptInputs(n) == [1..n -> PromptCitations]

\* build_context_prompt is called on the citations.
ContextPromptCall(citations) ==
    /\ call = NoCall
    /\ call' = [fn |-> "build_context_prompt", text |-> <<>>, citations |-> citations,
                context |-> build_context_prompt(citations)]
    /\ UNCHANGED <<documents, document_chunks, collection, disk, nextDocId, nUploads,
                   pc, tk, last, loop, nOps, procs, job_fired, deleted, conversations, messages, memories, turn, found, store_op>>

\* ------------------------------------------------- history of a chat turn
\* A messages table in which conversation 1 holds n messages, user and
\* assistant in turn; with `others`, a message of conversation 2 is stored
\* after each of them.  The content of a row is its serial number.
StoredMessages(n, others) ==
    [p \in 1..(IF others THEN 2 * n ELSE n) |->
        IF others /\ p % 2 = 0 THEN Message(2, "user", p)
        ELSE LET j == IF others THEN (p + 1) \div 2 ELSE p IN
             Message(1, IF j % 2 = 1 THEN "user" ELSE "assistant", p)]

\* The user message of a turn of conversation 1 is saved to the table and
\* the history of the turn is read.
HistoryCall(n, others) ==
    /\ call = NoCall
    /\ LET stored == StoredMessages(n, others)
           saved == Append(stored, Message(1, "user", Len(stored) + 1))
       IN call' = [fn |-> "chat_history", text |-> <<>>, messages |-> saved, conv |-> 1,
                   user_msg |-> Len(saved),
                   history_rows |-> history_rows(saved, 1),
                   history |-> chat_history(saved, 1)]
    /\ UNCHANGED <<documents, document_chunks, collection, disk, nextDocId, nUploads,
                   pc, tk, last, loop, nOps, procs, job_fired, deleted, conversations, messages, memories, turn, found, store_op>>

NextPure ==
    \/ \E n \in 0..MaxStored, others \in BOOLEAN : HistoryCall(n, others)
    \/ \E c \in Chars : InputChar(c)
    \/ \E size \in 1..MaxChunkSize, overlap \in 0..(MaxChunkSize - 1) :
          ChunkTextCall(size, overlap)
    \/ \E x \in IdInputs, y \in IdInputs : ChunkIdCall(x, y)
    \/ \E n \in 0..MaxTopK : \E citations \in PromptInputs(n) : ContextPromptCall(citations)

SpecPure == Init /\ [][NextPure]_vars

\* ================================================================ claims

StoresUnchanged ==
    /\ documents' = documents
    /\ document_chunks' = document_chunks
    /\ collection' = collection

RowsWithHash(h) == {d \in Rows : documents[d].content_hash = h}

\* C1: an ingest_file call on bytes whose hash a document row already
\* carries returns that row's document and changes nothing: the documents
\* table, the chunk rows and the vector index are as before, the call ends
\* at the lookup (no pipeline, so no embedding request and no upsert), and
\* one row carries the hash.  The file name of the call is free.
C1_DuplicateIngestReturnsExisting ==
    [][\A t \in Tasks :
        (/\ pc[t] = "ingest"
         /\ pc'[t] # "ingest"
         /\ Lower(tk[t].ext) \in SUPPORTED_EXTENSIONS
         /\ path_exists(tk[t].path)
         /\ RowsWithHash(disk[tk[t].path].bytes) # {})
        => /\ StoresUnchanged
           /\ pc'[t] \in {"idle", "scan"}
           /\ tk'[t].reqs = <<>>
           /\ tk'[t].chroma_ids = <<>>
           /\ \A d \in RowsWithHash(disk[tk[t].path].bytes) :
                 /\ RowsWithHash(disk[tk[t].path].bytes) = {d}
                 /\ tk[t].op # "scan" =>
                       last' = [op |-> tk[t].op, kind |-> "existing", doc |-> d]
    ]_vars

\* An upload is saved under a fresh name: it got back the document that an
\* earlier call made from the same bytes under another name.
C1_Witness ==
    /\ last.op = "upload"
    /\ last.kind = "existing"
    /\ Exists(last.doc)
    /\ documents[last.doc].file_path.dir = "watched"

\* C2: no two document rows carry the same content_hash, also when calls of
\* ingest_file for identical bytes, from uploads and from the folder scan,
\* are in flight at the same time (several worker processes).
C2_ContentHashUnique ==
    \A d1 \in Rows : \A d2 \in Rows :
        d1 # d2 => documents[d1].content_hash # documents[d2].content_hash

\* Two calls for the same bytes overlapped: one made the row, the insert of
\* the other was refused by the unique index.
C2_Witness ==
    \E t \in Tasks :
        /\ pc[t] = "raised"
        /\ tk[t].err = "integrity"
        /\ tk[t].doc = NoDoc
        /\ RowsWithHash(tk[t].hash) # {}

\* ---------------------------------------------------------------- C3
StatusPairs ==
    {<<documents[d].status, documents'[d].status>> :
        d \in {e \in DocIds : Exists(e) /\ documents'[e].status \notin {"absent", documents[e].status}}}

\* C3 as stated: the status of a document changes only along
\* pending->processing, processing->ready, processing->failed (and
\* processing->processing on reprocess, which is no change).
C3_OnlyFourTransitions ==
    [][StatusPairs \subseteq
          {<<PENDING, PROCESSING>>, <<PROCESSING, READY>>, <<PROCESSING, FAILED>>,
           <<PROCESSING, PROCESSING>>}]_vars

\* The step is the start of a reprocess of document d.
ReprocessOf(d) ==
    \E t \in Tasks : pc[t] = "idle" /\ pc'[t] = "process"
                     /\ tk'[t].op = "reprocess" /\ tk'[t].doc = d

\* C3 amended: the status of a document changes only along
\* pending->processing, processing->ready, processing->failed, and, by the
\* reprocess action only, failed->processing and ready->processing.
C3_TransitionsWithReprocess ==
    [][/\ StatusPairs \subseteq
            {<<PENDING, PROCESSING>>, <<PROCESSING, READY>>, <<PROCESSING, FAILED>>,
             <<FAILED, PROCESSING>>, <<READY, PROCESSING>>}
       /\ \A d \in DocIds :
            (Exists(d) /\ documents[d].status \in {FAILED, READY}
                /\ documents'[d].status = PROCESSING) => ReprocessOf(d)
    ]_vars

\* A reprocess has put a document back to processing whose ingestion had
\* failed during embedding (its chunk rows without vector id are stored).
C3_Witness ==
    \E t \in Tasks :
        /\ pc[t] = "process"
        /\ tk[t].op = "reprocess"
        /\ documents[tk[t].doc].status = PROCESSING
        /\ \E r \in BagToSet(document_chunks) :
              r.document_id = tk[t].doc /\ r.chroma_id = NoChunkId

\* ---------------------------------------------------------------- C4
IngestOps == {"upload", "ingest", "scan"}

ChunkRowsOf(d) == {r \in BagToSet(document_chunks) : r.document_id = d}

\* C4: when the pipeline fails inside ingest_file (the row exists), the
\* exception reaches the caller with the document in status failed, the
\* message of that exception recorded, and the row and every chunk row
\* flushed before the failure stored; they are still there once the caller
\* has handled the error.
C4_FailedIngestKeepsRows ==
    /\ \A t \in Tasks :
          (pc[t] = "raised" /\ tk[t].op \in IngestOps /\ tk[t].doc # NoDoc) =>
             /\ Exists(tk[t].doc)
             /\ documents[tk[t].doc].status = FAILED
             /\ documents[tk[t].doc].error_message = tk[t].err
             /\ \A i \in 1..Len(tk[t].chunks) :
                   BagIn([document_id |-> tk[t].doc, chunk_index |-> tk[t].chunks[i].index,
                          chroma_id |-> NoChunkId], document_chunks)
    /\ (last.op \in IngestOps /\ last.kind \in {"raised", "http500"} /\ last.doc # NoDoc) =>
          /\ Exists(last.doc)
          /\ documents[last.doc].status = FAILED
          /\ documents[last.doc].error_message # NULL
          /\ documents[last.doc].error_message \in {"embed", "index"} =>
                Cardinality(ChunkRowsOf(last.doc)) = NumChunks(documents[last.doc].content_hash)

\* An embedding failure is on its way to the caller and chunk rows are stored.
C4_Witness ==
    \E t \in Tasks :
        /\ pc[t] = "raised"
        /\ tk[t].op \in IngestOps
        /\ tk[t].err = "embed"
        /\ documents[tk[t].doc].status = FAILED
        /\ ChunkRowsOf(tk[t].doc) # {}

\* ---------------------------------------------------------------- C5
HasVector(d, chunk) ==
    \E r \in collection :
        r.id = generate_chunk_id(d, chunk.index, chunk.content) /\ r.document_id = d

\* C5: the embedding requests of a run are made for chunk 0, 1, 2, ... in
\* this order, each followed by its upsert before the next request; after a
\* failure at chunk k no request for a later chunk is made and the document
\* is not ready; a ready document has a vector for every chunk of its text.
C5_EmbedInOrderAllOrNotReady ==
    /\ \A t \in Tasks :
          LET k == Len(tk[t].chroma_ids) IN
          /\ \A i \in 1..Len(tk[t].reqs) : tk[t].reqs[i] = i - 1
          /\ Len(tk[t].reqs) <= Len(tk[t].chunks)
          /\ k <= Len(tk[t].reqs) /\ Len(tk[t].reqs) <= k + 1
          /\ \A i \in 1..k :
                tk[t].chroma_ids[i] =
                    generate_chunk_id(tk[t].doc, i - 1, tk[t].chunks[i].content)
          /\ tk[t].err \in {"embed", "index"} =>
                /\ Len(tk[t].reqs) = k + 1
                /\ pc[t] \in {"except", "raised"}
          /\ (pc[t] \in {"except", "raised"} /\ tk[t].doc # NoDoc) =>
                documents[tk[t].doc].status # READY
    /\ \A d \in Rows :
          documents[d].status = READY =>
             \A i \in 1..NumChunks(documents[d].content_hash) :
                HasVector(d, ChunksOf[documents[d].content_hash][i])

\* The embedding of the second chunk failed after the first was upserted.
C5_Witness ==
    \E t \in Tasks :
        /\ pc[t] = "raised"
        /\ tk[t].err \in {"embed", "index"}
        /\ tk[t].reqs = <<0, 1>>
        /\ Len(tk[t].chroma_ids) = 1
        /\ Len(tk[t].chunks) = 2

\* ---------------------------------------------------------------- C6
\* C6: once a run of the pipeline, started by ingest_file or by the
\* reprocess action, has returned or raised, its document is ready or failed.
C6_RunEndsReadyOrFailed ==
    (/\ last.op \in {"upload", "ingest", "reprocess"}
     /\ last.kind \in {"ok", "raised", "http500"}
     /\ last.doc # NoDoc)
    => /\ Exists(last.doc)
       /\ documents[last.doc].status \in {READY, FAILED}

\* ---------------------------------------------------------------- C7
\* C7: when an ingestion has failed during embedding, the document is failed
\* and its chunk_count is the number of chunk rows stored for it.
C7_ChunkCountAfterEmbedFailure ==
    \A t \in Tasks :
        (/\ pc[t] = "raised"
         /\ tk[t].op \in IngestOps
         /\ tk[t].err \in {"embed", "index"})
        => /\ documents[tk[t].doc].status = FAILED
           /\ documents[tk[t].doc].chunk_count = BagCardinality(
                 [r \in ChunkRowsOf(tk[t].doc) |-> document_chunks[r]])

\* ---------------------------------------------------------------- C8
\* C8: after the ingestion of an uploaded file has failed, the file at the
\* stored path of the failed document is still there, so that the reprocess
\* action is not rejected for a missing file.
C8_FailedUploadKeepsFile ==
    (last.op = "upload" /\ last.kind = "http500" /\ last.doc # NoDoc)
    => /\ documents[last.doc].status = FAILED
       /\ path_exists(documents[last.doc].file_path)

\* ---------------------------------------------------------------- C9
\* C9: ingest_file on a file name whose extension (compared without case) is
\* none of .pdf, .txt, .docx, .md raises, and nothing is created: the
\* documents table, the chunk rows, the vector index and the files are as
\* they were.
C9_UnsupportedExtensionRejected ==
    [][\A t \in Tasks :
        (/\ pc[t] = "ingest"
         /\ pc'[t] # "ingest"
         /\ Lower(tk[t].ext) \notin SUPPORTED_EXTENSIONS)
        => /\ pc'[t] = "raised"
           /\ tk'[t].err = "unsupported"
           /\ tk'[t].doc = NoDoc
           /\ StoresUnchanged
           /\ disk' = disk
    ]_vars

\* A direct call with an unsupported extension has raised.
C9_Witness ==
    \E t \in Tasks :
        /\ pc[t] = "raised"
        /\ tk[t].op = "ingest"
        /\ tk[t].err = "unsupported"
        /\ Lower(tk[t].ext) \notin SUPPORTED_EXTENSIONS

\* --------------------------------------------------------------- C10
\* C10: after delete_document(d) has returned true the vector index holds
\* no record of document d, also when an index operation failed.
C10_DeleteRemovesVectors ==
    (last.op = "delete" /\ last.kind = "true")
    => \A r \in collection : r.document_id # last.doc

\* --------------------------------------------------------------- C11
\* C11: an operation of the embedding store (upsert, search, delete by
\* document) whose access to the index failed ends with an error for its
\* caller; none returns normally.
C11_IndexFailureReported ==
    store_op.index_failed => store_op.raised

\* --------------------------------------------------------------- C12
\* The step is a call of retrieve_context.
RetrieveStep == nOps' = nOps + 1 /\ last'.op = "retrieve" /\ disk' = disk

C13_OnlyAllowedDocuments ==
    (found.search = "returned" /\ found.document_ids.given) =>
        \A i \in 1..Len(found.results) :
            \E j \in 1..Len(found.document_ids.ids) :
                found.document_ids.ids[j] = found.results[i].metadata.document_id

\* --------------------------------------------------------------- C14
\* C14: when the embedding request for the query or the search in the index
\* raises, retrieve_context returns normally with no citation.
C14_RetrievalDegradesToEmpty ==
    found.search = "raised" =>
        /\ last = [op |-> "retrieve", kind |-> "ok", doc |-> NoDoc]
        /\ found.citations = <<>>

\* The embedding request of a search failed with vectors in the index.
C14_Witness ==
    /\ found.search = "raised"
    /\ store_op = [op |-> "search", index_failed |-> FALSE, raised |-> TRUE]
    /\ collection # {}

\* --------------------------------------------------------------- C15
LiveResults(results) == SelectSeq(results, LAMBDA r : Exists(r.metadata.document_id))

\* C15: the citations are the results of the search whose document row
\* exists at the time of the retrieval, one citation per such result and in
\* the order of the search (score descending); results of documents that
\* are gone are left out, and no citation names a document that is not there.
C15_CitationsAreLiveResults ==
    [][(RetrieveStep /\ found'.search = "returned") =>
          LET live == LiveResults(found'.results) IN
          /\ Len(found'.citations) = Len(live)
          /\ \A i \in 1..Len(live) :
                /\ found'.citations[i].document_id = live[i].metadata.document_id
                /\ found'.citations[i].chunk_content = live[i].content
                /\ Exists(found'.citations[i].document_id)
          /\ \A i \in 1..Len(found'.results) : \A j \in 1..Len(found'.results) :
                i < j => found'.results[i].score >= found'.results[j].score
    ]_vars

\* A search returned a result of a document that was deleted: it is not cited.
C15_Witness ==
    /\ last.op = "retrieve"
    /\ found.search = "returned"
    /\ Len(found.citations) < Len(found.results)

\* --------------------------------------------------------------- C16
\* Number of chunk rows of document d with chunk_index i.
RowCount(d, i) ==
    BagCardinality([r \in {x \in ChunkRowsOf(d) : x.chunk_index = i} |-> document_chunks[r]])

\* C16: the chunk rows of every document have pairwise distinct chunk_index
\* values which are exactly 0..N-1, N the number of its rows; no row of an
\* earlier run stays next to those of a reprocess.
C16_ChunkIndexDense ==
    \A d \in Rows :
        LET n == BagCardinality([r \in ChunkRowsOf(d) |-> document_chunks[r]]) IN
        /\ \A r \in ChunkRowsOf(d) : r.chunk_index \in 0..(n - 1)
        /\ \A i \in 0..(n - 1) : RowCount(d, i) = 1

\* --------------------------------------------------------------- C17
\* C17: for every ready document chunk_count is at least 1 and is the number
\* of its chunk rows, every one of these rows carries a vector id, and the
\* index holds a record under that id whose document_id is the document's.
C17_ReadyDocumentConsistent ==
    \A d \in Rows :
        documents[d].status = READY =>
           /\ documents[d].chunk_count >= 1
           /\ documents[d].chunk_count =
                 BagCardinality([r \in ChunkRowsOf(d) |-> document_chunks[r]])
           /\ \A r \in ChunkRowsOf(d) :
                 /\ r.chroma_id # NoChunkId
                 /\ \E v \in collection : v.id = r.chroma_id /\ v.document_id = d

\* --------------------------------------------------------------- C18
\* The index holds, for document d, a record for every chunk of the list.
Indexed(d, chunks) ==
    \A i \in 1..Len(chunks) :
        \E v \in collection :
            /\ v.document_id = d
            /\ v.chunk_index = chunks[i].index
            /\ v.content = chunks[i].content

\* C18: a second run of the pipeline for a document, on the same content,
\* computes the vector ids of the first run and its upserts overwrite in
\* place: when the index holds the records of the first run, no step of the
\* second run changes the index, and no two records share an id.
C18_ReupsertIdempotent ==
    [][/\ \A t \in Tasks :
            (pc[t] = "embed" /\ tk[t].op = "reprocess" /\ Indexed(tk[t].doc, tk[t].chunks))
            => collection' = collection
       /\ \A v \in collection' : \A w \in collection' : v.id = w.id => v = w
    ]_vars

\* The second run has upserted all its chunks again.
C18_Witness ==
    \E t \in Tasks :
        /\ pc[t] = "embed"
        /\ tk[t].op = "reprocess"
        /\ Len(tk[t].chunks) = 2
        /\ Len(tk[t].chroma_ids) = 2
        /\ Cardinality({v \in collection : v.document_id = tk[t].doc}) = 2

\* --------------------------------------------------------------- C19
\* C19 as stated: equal inputs give equal ids, and inputs that differ in the
\* document id, the chunk index or the content give different ids.
C19_AnyInputChangesId ==
    call.fn = "generate_chunk_id" => (call.id_x = call.id_y <=> call.x = call.y)

\* C19 amended: equal inputs give equal ids, and two inputs give different
\* ids exactly when they differ in the document id, in the chunk index or
\* within the first 100 characters of the content.
C19_IdOfFirstHundredChars ==
    call.fn = "generate_chunk_id" =>
        (call.id_x = call.id_y <=>
            /\ call.x.document_id = call.y.document_id
            /\ call.x.chunk_index = call.y.chunk_index
            /\ \A i \in 1..100 :
                  /\ i <= Len(call.x.content) <=> i <= Len(call.y.content)
                  /\ (i <= Len(call.x.content) /\ i <= Len(call.y.content))
                        => call.x.content[i] = call.y.content[i])

\* Two contents that differ after their 100th character got the same id.
C19_Witness ==
    /\ call.fn = "generate_chunk_id"
    /\ call.x.content # call.y.content
    /\ Len(call.x.content) > 100
    /\ call.id_x = call.id_y

\* --------------------------------------------------------------- C20
\* C20: the index fields of the chunks of one chunk_text call are 0, 1, ...,
\* N-1 in the order of emission, whatever flushes and hard-split windows
\* produced them.
C20_ChunkIndicesDense ==
    call.fn = "chunk_text" =>
        \A i \in 1..Len(call.chunks) : call.chunks[i].index = i - 1

\* A call that flushed a buffer, then hard-split a sentence and skipped a
\* window of whitespace.
C20_Witness ==
    /\ call.fn = "chunk_text"
    /\ Len(call.chunks) >= 3
    /\ LET sentences == split_into_sentences(clean_text(call.text)) IN
       /\ Len(sentences) = 2
       /\ Len(sentences[1]) <= call.chunk_size
       /\ Len(sentences[2]) > call.chunk_size
       /\ \E i \in 1..Len(sentences[2]) : sentences[2][i] \in Whitespace

\* --------------------------------------------------------------- C21
\* The sentences of normalized(T) of the call, and the sentences read back
\* from the content of each chunk.
CallSentences == split_into_sentences(clean_text(call.text))
ReadBack == [i \in 1..Len(call.chunks) |-> split_into_sentences(call.chunks[i].content)]

\* Reading the chunks from chunk i on, with the first `pos` sentences already
\* recovered: some number k of sentences at the start of chunk i repeats the
\* last k sentences of chunk i-1 and is skipped, the rest of the chunk is the
\* next sentences of the text, and the last chunk ends the text.
RECURSIVE RecoversFrom(_, _, _, _)
RecoversFrom(read, i, sentences, pos) ==
    IF i > Len(read) THEN pos = Len(sentences)
    ELSE \E k \in 0..Len(read[i]) :
            LET rest == SubSeq(read[i], k + 1, Len(read[i])) IN
            /\ i = 1 => k = 0
            /\ i > 1 => /\ k <= Len(read[i - 1])
                        /\ SubSeq(read[i], 1, k) =
                             SubSeq(read[i - 1], Len(read[i - 1]) - k + 1, Len(read[i - 1]))
            /\ pos + Len(rest) <= Len(sentences)
            /\ SubSeq(sentences, pos + 1, pos + Len(rest)) = rest
            /\ RecoversFrom(read, i + 1, sentences, pos + Len(rest))

AllSentencesFit == \A k \in 1..Len(CallSentences) : Len(CallSentences[k]) <= call.chunk_size

\* C21 as stated: for every text and every (chunk_size, chunk_overlap) with
\* overlap < size, reading the chunks in order and skipping the sentences a
\* chunk repeats from the end of the previous one recovers every sentence of
\* the normalized text exactly once and in the original order.
C21_EverySentenceRecovered ==
    call.fn = "chunk_text" => RecoversFrom(ReadBack, 1, CallSentences, 0)

\* C21 amended: the same, for the texts none of whose sentences is longer
\* than chunk_size; a longer sentence is cut into character windows and is
\* in no chunk as a sentence.
C21_FittingSentencesRecovered ==
    (call.fn = "chunk_text" /\ AllSentencesFit) =>
        RecoversFrom(ReadBack, 1, CallSentences, 0)

\* A call whose second chunk starts with the sentence that ended the first
\* one and goes on with a new sentence.
C21_Witness ==
    /\ call.fn = "chunk_text"
    /\ AllSentencesFit
    /\ Len(CallSentences) >= 3
    /\ Len(call.chunks) >= 2
    /\ Len(ReadBack[2]) >= 2
    /\ ReadBack[2][1] = ReadBack[1][Len(ReadBack[1])]

\* --------------------------------------------------------------- C22
\* C22 as stated: for every text and every (chunk_size, chunk_overlap) with
\* overlap < size, the content of every chunk has at most chunk_size
\* characters.
C22_ChunksSizeBounded ==
    call.fn = "chunk_text" =>
        \A i \in 1..Len(call.chunks) : Len(call.chunks[i].content) <= call.chunk_size

\* C22 amended: the content of every chunk, the blanks that join its
\* sentences not counted, has at most chunk_size + chunk_overlap characters,
\* and a chunk of one sentence or one window has at most chunk_size.
C22_ChunksBoundedBySizePlusOverlap ==
    call.fn = "chunk_text" =>
        \A i \in 1..Len(call.chunks) :
            LET content == call.chunks[i].content
                joins == Len(ReadBack[i]) - 1
            IN /\ Len(content) - joins <= call.chunk_size + call.chunk_overlap
               /\ joins = 0 => Len(content) <= call.chunk_size

\* A call with a chunk of several sentences that is longer than chunk_size
\* even without its joining blanks, after a chunk that was flushed.
C22_Witness ==
    /\ call.fn = "chunk_text"
    /\ \E i \in 2..Len(call.chunks) :
          /\ Len(ReadBack[i]) >= 2
          /\ Len(call.chunks[i].content) - (Len(ReadBack[i]) - 1) > call.chunk_size

\* --------------------------------------------------------------- C23
\* C23: a text that is non-empty after normalization and shorter than
\* chunk_size yields exactly one chunk, with index 0; a text that is empty
\* after normalization yields the empty sequence.
C23_ShortTextOneChunk ==
    call.fn = "chunk_text" =>
        LET normalized == clean_text(call.text) IN
        /\ (normalized # <<>> /\ Len(normalized) < call.chunk_size) =>
              (Len(call.chunks) = 1 /\ call.chunks[1].index = 0)
        /\ normalized = <<>> => call.chunks = <<>>

\* A call on a text of two sentences that is shorter than chunk_size.
C23_Witness ==
    /\ call.fn = "chunk_text"
    /\ Len(clean_text(call.text)) < call.chunk_size
    /\ Len(CallSentences) = 2
    /\ Len(call.chunks) = 1

\* A call on a text of blanks and newlines only.
C23_WitnessEmpty ==
    /\ call.fn = "chunk_text"
    /\ call.text # <<>>
    /\ clean_text(call.text) = <<>>
    /\ call.chunks = <<>>

\* --------------------------------------------------------------- C24
\* An entry of the folder that a scan has to hand to ingest_file: a supported
\* file whose hash matches no document.
Attemptable(entry) ==
    /\ path_exists(entry)
    /\ Lower(disk[entry].ext) \in SUPPORTED_EXTENSIONS
    /\ existing(disk[entry].bytes) = NoDoc

\* C24: a failure on one file never aborts the folder scan: whatever failed
\* on the files visited earlier, no scan ends while a supported file with a
\* new hash is still to be visited.
C24_FailureNeverAbortsScan ==
    \A t \in Tasks :
        pc[t] = "scan_raised" => \A entry \in tk[t].todo : ~Attemptable(entry)

\* --------------------------------------------------------------- C25
\* The documents in status failed and the hashes of their files.
FailedDocs == {d \in Rows : documents[d].status = FAILED}
FailedHashes == {documents[d].content_hash : d \in FailedDocs}

\* C25: a failed ingestion is never retried automatically: a document in
\* failed stays in failed until it is reprocessed (or deleted), no folder
\* scan hands the file of a failed document to ingest_file, and no run other
\* than a reprocess starts extraction for such a file.
C25_FailedNeverRetried ==
    [][/\ \A d \in FailedDocs :
            \/ documents'[d].status = FAILED
            \/ documents'[d] = NoRow
            \/ ReprocessOf(d)
       /\ \A t \in Tasks :
            (pc[t] = "scan" /\ pc'[t] = "ingest") =>
                disk[tk'[t].path].bytes \notin FailedHashes
       /\ \A t \in Tasks :
            (pc[t] # "process" /\ pc'[t] = "process" /\ tk'[t].op # "reprocess") =>
                tk'[t].hash \notin FailedHashes
    ]_vars

\* A folder scan has visited, and left alone, the file of a document that an
\* earlier direct ingestion left in failed.
C25_Witness ==
    \E t \in Tasks, d \in FailedDocs :
        /\ pc[t] = "scan"
        /\ documents[d].file_path \in WatchedPaths
        /\ ~documents[d].is_watched
        /\ path_exists(documents[d].file_path)
        /\ documents[d].file_path \notin tk[t].todo

\* --------------------------------------------------------------- C26
\* The runs of the folder scan and of the digest generation in flight.
ScansInFlight == {t \in Tasks : pc[t] # "idle" /\ tk[t].op = "scan"}
DigestsInFlight == {t \in Tasks : pc[t] = "digest"}

\* C26: at every moment at most one folder scan and at most one digest
\* generation is in flight, whether the scheduler or a request started it.
C26_OneScanOneDigestInFlight ==
    /\ Cardinality(ScansInFlight) <= 1
    /\ Cardinality(DigestsInFlight) <= 1

\* The digest is being generated for a request while the other task is idle
\* and may be given the scheduler's job.
C26_Witness ==
    \E t \in Tasks, u \in Tasks :
        /\ t # u
        /\ pc[t] = "digest"
        /\ tk[t].op = "digest_request"
        /\ pc[u] = "idle"
        /\ nOps < MaxOps

\* --------------------------------------------------------------- C27
\* The tokens among the events handed to the client, in order.
RECURSIVE TokensOf(_)
TokensOf(events) ==
    IF events = <<>> THEN <<>>
    ELSE (IF Head(events).type = "token" THEN <<Head(events).content>> ELSE <<>>)
         \o TokensOf(Tail(events))

\* The rows of a role in a conversation.
RowsOf(conv, role) ==
    {i \in 1..Len(messages) : messages[i].conversation_id = conv /\ messages[i].role = role}

\* The turns in progress on a conversation whose token stream has not ended.
Streaming(conv) ==
    {t \in Tasks : pc[t] \in {"chat", "llm"} /\ tk[t].turn.conv = conv
                   /\ tk[t].turn.llm # "ended"}

\* The assistant message of turn x is stored and is the concatenation of the
\* tokens handed to the client.
StoredAsSent(x) ==
    /\ x.assistant_msg \in 1..Len(messages)
    /\ messages[x.assistant_msg] =
          Message(x.conv, "assistant", TokensOf(x.events))

\* C27: the assistant message of a chat turn is written only after the token
\* stream has ended and its content is the concatenation, in order, of all
\* tokens emitted to the client in that stream: while the stream of a turn
\* has not ended the conversation has no assistant message for it, and the
\* message of a turn that stored one is the tokens it sent.
C27_AssistantMessageAfterStream ==
    /\ \A conv \in 1..conversations :
          Cardinality(RowsOf(conv, "assistant")) + Cardinality(Streaming(conv))
              <= Cardinality(RowsOf(conv, "user"))
    /\ \A t \in Tasks :
          (pc[t] \in {"chat", "llm", "sent"} /\ tk[t].turn.assistant_msg # 0) =>
              (tk[t].turn.llm = "ended" /\ StoredAsSent(tk[t].turn))

\* A turn has sent two tokens and stored its assistant message; the client
\* is being sent the done event.
C27_Witness ==
    \E t \in Tasks :
        /\ pc[t] = "sent"
        /\ tk[t].turn.assistant_msg # 0
        /\ Len(TokensOf(tk[t].turn.events)) = 2

\* --------------------------------------------------------------- C28
\* C28: when the client disconnects while a chat response is streaming, the
\* turn is not left half-persisted: once the turn has ended, its user message
\* is not in the store without its assistant message.
C28_DisconnectNotHalfPersisted ==
    (turn.outcome = "disconnected" /\ turn.llm = "open") =>
        (turn.user_msg \in 1..Len(messages) => turn.assistant_msg \in 1..Len(messages))

\* --------------------------------------------------------------- C29
\* Task t is running the pipeline on a document whose row it has created
\* and whose final status is not set.
Ingesting(t) ==
    /\ pc[t] \in {"process", "embed"}
    /\ tk[t].op \in IngestOps
    /\ tk[t].doc # NoDoc
    /\ documents[tk[t].doc].status = PROCESSING

\* An unrelated request of another task takes a step: a retrieval starts, or
\* the ingestion of a file does.
UnrelatedStep(t) ==
    \E u \in Tasks \ {t} :
        \/ \E query \in Queries, top_k \in 1..MaxTopK, document_ids \in IdLists :
              Retrieve(u, query, top_k, document_ids, "ok")
        \/ \E p \in Paths, ext \in Exts : IngestStart(u, p, ext)

\* C29: a long-running ingestion does not block unrelated requests: while a
\* document is between the creation of its row and its final status, a
\* retrieval or the ingestion of another file can take a step.
C29_IngestionDoesNotBlock ==
    \A t \in Tasks :
        (/\ Ingesting(t)
         /\ \E u \in Tasks \ {t} : pc[u] = "idle"
         /\ nOps < MaxOps)
            => ENABLED UnrelatedStep(t)

\* --------------------------------------------------------------- C30
\* The chunk rows (with their numbers of copies) and the vector records of
\* document d.
RowsBagOf(d) == [r \in ChunkRowsOf(d) |-> document_chunks[r]]
VectorsOf(d) == {r \in collection : r.document_id = d}

\* The step is the successful deletion of document d: its row goes away.
Deletes(d) ==
    /\ documents[d].status # "absent"
    /\ documents'[d].status = "absent"
    /\ last' = [op |-> "delete", kind |-> "true", doc |-> d]

\* The step is a step of a run on document d, or the deletion of d.
StepOn(d) ==
    \/ \E t \in Tasks :
          /\ pc'[t] # pc[t] \/ tk'[t] # tk[t]
          /\ tk[t].doc = d
    \/ Deletes(d)

\* C30: operations on one document never touch another document's data:
\* the chunk rows and vector records of a document change only in steps of
\* an ingestion, reprocess or deletion of that document; records of
\* different documents have different vector ids; and a deletion removes
\* only records of its document and is no error when there are none.
C30_OtherDocumentsUntouched ==
    [][/\ \A d \in DocIds :
            (RowsBagOf(d)' # RowsBagOf(d) \/ VectorsOf(d)' # VectorsOf(d)) => StepOn(d)
       /\ \A r \in collection' : \A q \in collection' :
            r.id = q.id => r.document_id = q.document_id
       /\ \A d \in DocIds :
            Deletes(d) =>
                /\ ~store_op'.raised
                /\ \A r \in collection \ collection' : r.document_id = d
    ]_vars

\* A document is being embedded while another document has its chunk rows
\* and its vector records.
C30_Witness ==
    \E t \in Tasks, d \in DocIds :
        /\ pc[t] = "embed"
        /\ tk[t].doc # d
        /\ VectorsOf(tk[t].doc) # {}
        /\ VectorsOf(d) # {}
        /\ ChunkRowsOf(d) # {}

\* A document without vector records has been deleted.
C30_WitnessDeleteNone ==
    /\ last.op = "delete"
    /\ last.kind = "true"
    /\ store_op.op = "delete"
    /\ ~store_op.index_failed
    /\ collection = {}
    /\ nOps = 2

\* --------------------------------------------------------------- C31
\* The positions of the labels in a context string, in increasing order.
RECURSIVE LabelPositions(_, _)
LabelPositions(context, from) ==
    IF from > Len(context) THEN <<>>
    ELSE (IF context[from] = "[Source " THEN <<from>> ELSE <<>>)
         \o LabelPositions(context, from + 1)

\* The text of the k-th labelled block: from its label up to the line break
\* that joins it to the next part.
BlockText(context, labels, k) ==
    SubSeq(context, labels[k],
           IF k < Len(labels) THEN labels[k + 1] - 2 ELSE Len(context) - 3)

\* C31: build_context_prompt returns the empty string for no citations;
\* otherwise the string has one labelled block per citation, numbered 1..n,
\* the k-th carrying the title and the content of the k-th citation.
C31_ContextBlocksInOrder ==
    call.fn = "build_context_prompt" =>
        LET labels == LabelPositions(call.context, 1)
            n == Len(call.citations) IN
        IF n = 0 THEN call.context = <<>>
        ELSE /\ Len(labels) = n
             /\ \A k \in 1..n :
                    BlockText(call.context, labels, k) =
                        <<"[Source ", str(k), ": ", call.citations[k].document_title, "]", "LF">>
                            \o call.citations[k].chunk_content \o <<"LF">>

\* Two citations with different titles and contents have been laid out.
C31_Witness ==
    /\ call.fn = "build_context_prompt"
    /\ Len(call.citations) = 2
    /\ call.citations[1].document_title # call.citations[2].document_title
    /\ call.citations[1].chunk_content # call.citations[2].chunk_content

\* The context of no citations has been built.
C31_WitnessEmpty ==
    /\ call.fn = "build_context_prompt"
    /\ call.citations = <<>>

\* --------------------------------------------------------------- C32
\* The state of the loop of the call before and after its k-th sentence.
EmptyBuffer == [chunks |-> <<>>, current_chunk |-> <<>>, current_len |-> 0, chunk_index |-> 0]
StateBefore(k) ==
    pack(EmptyBuffer, SubSeq(CallSentences, 1, k - 1), 1, call.chunk_size, call.chunk_overlap)
StateAfter(k) ==
    pack_sentence(StateBefore(k), CallSentences[k], call.chunk_size, call.chunk_overlap)

\* The sentences of the call that are longer than chunk_size.
Oversized == {k \in 1..Len(CallSentences) : Len(CallSentences[k]) > call.chunk_size}

\* The windows sentence[i : i + size] for i = 0, s, 2s, ... below the length
\* of the sentence, with s = size - overlap.
Windows(sentence, size, overlap) ==
    LET s == size - overlap
        n == (Len(sentence) + s - 1) \div s
    IN [j \in 1..n |-> SubSeq(sentence, (j - 1) * s + 1,
                               Min((j - 1) * s + size, Len(sentence)))]

Blank(w) == \A i \in 1..Len(w) : w[i] \in Whitespace
ContentsOf(chunks) == [i \in 1..Len(chunks) |-> chunks[i].content]

\* What the k-th sentence, an oversized one, adds to the chunks when the
\* windows in `emitted` are the ones that become chunks: the pending buffer
\* first, then the windows in order, and nothing is left in the buffer.
HardSplitEmits(k, emitted) ==
    LET before == StateBefore(k)
        after == StateAfter(k)
    IN /\ ContentsOf(after.chunks) =
              ContentsOf(before.chunks)
              \o (IF before.current_chunk # <<>> THEN <<join(before.current_chunk)>> ELSE <<>>)
              \o emitted
       /\ \A i \in 1..Len(after.chunks) : after.chunks[i].index = i - 1
       /\ after.current_chunk = <<>>
       /\ after.current_len = 0

\* C32 as stated: for a sentence longer than chunk_size the pending buffer
\* is emitted first, then every non-empty window sentence[i : i + chunk_size],
\* i = 0, s, 2s, ..., in order, and the buffer is empty afterwards.
C32_HardSplitEveryWindow ==
    call.fn = "chunk_text" =>
        \A k \in Oversized :
            HardSplitEmits(k, SelectSeq(Windows(CallSentences[k], call.chunk_size,
                                                call.chunk_overlap),
                                        LAMBDA w : w # <<>>))

\* C32 amended: the same, with the windows that hold a character other than
\* whitespace; a window of whitespace only is left out.
C32_HardSplitNonBlankWindows ==
    call.fn = "chunk_text" =>
        \A k \in Oversized :
            HardSplitEmits(k, SelectSeq(Windows(CallSentences[k], call.chunk_size,
                                                call.chunk_overlap),
                                        LAMBDA w : ~Blank(w)))

\* An oversized sentence met a pending buffer and was cut into three
\* overlapping windows.
C32_Witness ==
    /\ call.fn = "chunk_text"
    /\ call.chunk_overlap >= 1
    /\ \E k \in Oversized :
          /\ StateBefore(k).current_chunk # <<>>
          /\ Len(Windows(CallSentences[k], call.chunk_size, call.chunk_overlap)) >= 3
          /\ Len(StateAfter(k).chunks) >= 4

\* An oversized sentence had a window of whitespace only.
C32_WitnessBlankWindow ==
    /\ call.fn = "chunk_text"
    /\ \E k \in Oversized :
          \E j \in 1..Len(Windows(CallSentences[k], call.chunk_size, call.chunk_overlap)) :
              Blank(Windows(CallSentences[k], call.chunk_size, call.chunk_overlap)[j])

\* --------------------------------------------------------------- C33
\* The sum of the lengths of the sentences.
RECURSIVE RawLen(_)
RawLen(sentences) ==
    IF sentences = <<>> THEN 0 ELSE Len(Head(sentences)) + RawLen(Tail(sentences))

\* The k-th sentence of the call, one that fits, made the loop flush the
\* buffer as a chunk.
FlushedAt(k) ==
    /\ k \in 1..Len(CallSentences)
    /\ k \notin Oversized
    /\ Len(StateAfter(k).chunks) = Len(StateBefore(k).chunks) + 1

\* The sentences at the start of the buffer after the k-th sentence that
\* were taken over from the chunk flushed there.
RepeatedAt(k) ==
    SubSeq(StateAfter(k).current_chunk, 1, Len(StateAfter(k).current_chunk) - 1)

\* C33: every chunk built by sentence packing is a flushed buffer; the sum
\* of the raw lengths of the sentences of a buffer is at most chunk_size +
\* chunk_overlap, and the sentences a buffer repeats from the chunk flushed
\* before it have a total raw length of at most chunk_overlap.
C33_PackedChunkBounded ==
    call.fn = "chunk_text" =>
        LET n == Len(CallSentences)
            final == StateBefore(n + 1)
        IN /\ \A k \in 1..(n + 1) :
                  RawLen(StateBefore(k).current_chunk) <= call.chunk_size + call.chunk_overlap
           /\ \A k \in 1..n :
                  FlushedAt(k) =>
                      /\ ContentsOf(StateAfter(k).chunks) =
                             Append(ContentsOf(StateBefore(k).chunks),
                                    join(StateBefore(k).current_chunk))
                      /\ RawLen(RepeatedAt(k)) <= call.chunk_overlap
                      /\ \A j \in 1..Len(RepeatedAt(k)) :
                             RepeatedAt(k)[j] =
                                 StateBefore(k).current_chunk[
                                     Len(StateBefore(k).current_chunk) - Len(RepeatedAt(k)) + j]
           /\ \A k \in (1..n) \ Oversized :
                  ~FlushedAt(k) =>
                      StateAfter(k).current_chunk =
                          Append(StateBefore(k).current_chunk, CallSentences[k])
           /\ final.current_chunk # <<>> =>
                  ContentsOf(call.chunks) =
                      Append(ContentsOf(final.chunks), join(final.current_chunk))
           /\ final.current_chunk = <<>> => call.chunks = final.chunks

\* A flushed chunk left a sentence as overlap, and the buffer that repeats
\* it holds chunk_size + chunk_overlap characters of sentences.
C33_Witness ==
    /\ call.fn = "chunk_text"
    /\ \E k \in 1..Len(CallSentences) :
          /\ FlushedAt(k)
          /\ RepeatedAt(k) # <<>>
          /\ RawLen(StateAfter(k).current_chunk) = call.chunk_size + call.chunk_overlap
          /\ call.chunk_overlap >= 1

\* --------------------------------------------------------------- C34
\* C34: every citation returned by retrieve_context references a document
\* whose status is ready at retrieval time.
C34_CitationsOfReadyDocuments ==
    (last.op = "retrieve" /\ found.search = "returned") =>
        \A i \in 1..Len(found.citations) :
            documents[found.citations[i].document_id].status = READY

\* --------------------------------------------------------------- C35
\* The ids of the messages of the call's conversation stored before the
\* just-saved user message, in stored order.
StoredBefore ==
    SelectSeq([i \in 1..(call.user_msg - 1) |-> i],
              LAMBDA i : call.messages[i].conversation_id = call.conv)

\* C35: for a conversation of any length, the history of a chat turn is the
\* messages of the conversation stored before the just-saved user message,
\* in stored order: the only message left out at the end is that user
\* message.
C35_HistoryIsAllButNewMessage ==
    call.fn = "chat_history" =>
        /\ call.history_rows = StoredBefore
        /\ call.history =
               [k \in 1..Len(StoredBefore) |->
                   [role |-> call.messages[StoredBefore[k]].role,
                    content |-> call.messages[StoredBefore[k]].content]]

\* --------------------------------------------------------------- C36
Terminal(e) == e.type \in {"done", "error"}

\* The chat turns whose generator has been handed to the response.
Turns == {t \in Tasks : pc[t] \in {"chat", "llm", "sent"}}

\* C36: in every chat stream the sources event comes before every token
\* event; the stream ends with exactly one terminal event, done or error,
\* and has none before its end; and the done event is sent only after the
\* assistant message has been committed, and carries its id.
C36_StreamEventsOrdered ==
    \A t \in Turns :
        LET x == tk[t].turn
            n == Len(x.events)
        IN /\ \A i \in 1..n :
                  /\ x.events[i].type = "sources" => i = 1
                  /\ Terminal(x.events[i]) => (i = n /\ pc[t] = "sent")
           /\ pc[t] = "sent" => (n >= 1 /\ Terminal(x.events[n]))
           /\ \A i \in 1..n :
                  x.events[i].type = "done" =>
                      /\ x.assistant_msg \in 1..Len(messages)
                      /\ messages[x.assistant_msg].conversation_id = x.conv
                      /\ messages[x.assistant_msg].role = "assistant"
                      /\ x.events[i] = DoneEvent(x.conv, x.assistant_msg)

\* A stream of a sources event, two token events and the done event.
C36_Witness ==
    \E t \in Turns :
        /\ pc[t] = "sent"
        /\ Len(tk[t].turn.events) = 4
        /\ tk[t].turn.events[1].type = "sources"
        /\ tk[t].turn.events[2].type = "token"
        /\ tk[t].turn.events[4].type = "done"

\* A stream that ended with the error event after a token.
C36_WitnessError ==
    \E t \in Turns :
        /\ pc[t] = "sent"
        /\ Len(tk[t].turn.events) >= 2
        /\ tk[t].turn.events[Len(tk[t].turn.events)].type = "error"

\* --------------------------------------------------------------- C37
\* C37: a deleted folder-sourced document does not come back on its own:
\* after delete_document(d) has returned true, no folder scan creates a
\* document with d's content hash unless a file with those bytes has been
\* placed in the folder again.
C37_DeletedDoesNotComeBack ==
    [][\A d \in DocIds :
          (~Exists(d) /\ documents'[d].status # "absent" /\ documents'[d].is_watched) =>
              documents'[d].content_hash \notin deleted
    ]_vars

\* --------------------------------------------------------------- C38
\* C38: for each day at most one digest memory is stored: once a digest
\* memory of the day exists, neither a request for today's digest nor the
\* scheduled digest job stores a second one.
C38_OneDigestPerDay == memories <= 1

====
